---- MODULE Spec2Model ----
(***************************************************************************)
(* Model of the RssBot service platform's routing core:                    *)
(*   - the persistent service registry (ServiceRegistryManager),           *)
(*   - the Redis decision cache in front of it (CachedServiceRegistry),    *)
(*   - the per-call dispatcher (ServiceProxy),                             *)
(*   - the health writers (HealthChecker, ControllerCore),                 *)
(*   - the priority-aware admission queue (evox PriorityAwareQueue).       *)
(* Every handler is one action; awaits inside a handler that no other      *)
(* handler of this model can interleave with are folded into the action.   *)
(***************************************************************************)
EXTENDS Integers, Sequences, FiniteSets, TLC

\* ------------------------------------------------------------------------
\* Vocabulary
\* ------------------------------------------------------------------------

\* Names of the services the scanner can find on disk.
Services == {"ai_svc"}

\* ConnectionMethod enum values.
ROUTER == "router"
REST == "rest"
DISABLED == "disabled"
ConnectionMethod == {ROUTER, REST, DISABLED}

\* Values health_status takes in the column's description.
HealthStatuses == {"healthy", "degraded", "down", "unknown"}

\* What a mounted module's own health_check() may report in its "status"
\* key: any string.  "error" stands for every string outside HealthStatuses.
ModuleStatuses == HealthStatuses \cup {"error"}

\* rest_url: absent, the URL config.get_service_url() derives, or another one
\* typed in by the operator.
NoUrl == "none"
DefaultUrl == "default"
CustomUrl == "custom"
RestUrls == {NoUrl, DefaultUrl, CustomUrl}

\* A Redis key that is not present.
NoKey == "none"

\* Outcomes of the in-process call made by _call_via_router.
\*   ok       the method exists and returns
\*   raise    the method exists and raises
\*   missing  the router module has no such attribute (AttributeError)
\*   noimport the router module cannot be imported (ServiceError)
LocalOutcomes == {"ok", "raise", "missing", "noimport"}

\* Outcomes of the HTTP POST made by _call_via_rest: a status code, or a
\* transport error / timeout raised by the client.
TransportError == 0
RemoteOutcomes == {200, 201, 204, 404, 500, TransportError}

\* Values a call() can hand back to its caller.
LocalResult == "local_result"
RemoteResult == "remote_result"
NoneResult == "None"

VARIABLES
    registry,          \* registered_services table: name -> row
    method_cache,      \* Redis key rssbot:service:<name>:method
    health_cache,      \* Redis key rssbot:service:<name>:health (status only)
    method_ttl,        \* seconds the method key has left to live (0: no key)
    health_ttl,        \* seconds the health key has left to live (0: no key)
    redis_available,   \* CachedServiceRegistry._redis_available
    local_router_mode, \* Config.local_router_mode (LOCAL_ROUTER_MODE)
    mounted_services,  \* ControllerCore.mounted_services (its keys)
    last,              \* what the most recent operation returned / did
    queues,            \* PriorityAwareQueue.queues: occupancy of each asyncio.Queue
    active_workers,    \* PriorityAwareQueue.active_workers
    queue_lengths,     \* PriorityQueueStats.queue_lengths
    admission_rejections, \* PriorityQueueStats.admission_rejections
    processed_count,   \* PriorityQueueStats.processed_count
    errors,            \* PriorityQueueStats.errors (the lanes of the logged errors)
    in_flight,         \* per lane: number of submit() calls awaiting their operation
    qlast,             \* what the most recent queue operation returned / did
    batch,             \* the batch of operations handed to a gather / parallel call
    monitor,           \* the two background health loops: where each one is
    calls              \* per caller: where its _execute_service_call stands

regVars == <<registry, method_cache, health_cache, method_ttl, health_ttl,
             redis_available,
             local_router_mode, mounted_services, last>>
queueVars == <<queues, active_workers, queue_lengths, admission_rejections,
               processed_count, errors, in_flight, qlast>>
gatherVars == <<batch>>
monitorVars == <<monitor>>
callVars == <<calls>>
notRegVars == <<queueVars, gatherVars, monitorVars, callVars>>
notQueueVars == <<regVars, gatherVars, monitorVars, callVars>>
notGatherVars == <<regVars, queueVars, monitorVars, callVars>>
notMonitorVars == <<queueVars, gatherVars, callVars>>
notCallVars == <<queueVars, gatherVars, monitorVars>>
vars == <<registry, method_cache, health_cache, method_ttl, health_ttl,
          redis_available,
          local_router_mode, mounted_services, last,
          queues, active_workers, queue_lengths, admission_rejections,
          processed_count, errors, in_flight, qlast, batch, monitor, calls>>

\* ------------------------------------------------------------------------
\* RegisteredService
\* ------------------------------------------------------------------------

\* The policy with a degraded service still routed in-process.
get_effective_connection_method_DegradedLocal(service) ==
    IF ~service.is_active THEN DISABLED
    ELSE IF service.connection_method = DISABLED THEN DISABLED
    ELSE IF /\ service.connection_method = ROUTER
            /\ service.has_router
            /\ service.health_status \in {"healthy", "degraded", "unknown"}
         THEN ROUTER
    ELSE IF /\ service.rest_url # NoUrl
            /\ service.health_status \in {"healthy", "degraded", "unknown"}
         THEN REST
    ELSE DISABLED

\* RegisteredService.get_effective_connection_method
get_effective_connection_method(service) ==
    IF ~service.is_active THEN DISABLED
    ELSE IF service.connection_method = DISABLED THEN DISABLED
    ELSE IF /\ service.connection_method = ROUTER
            /\ service.has_router
            /\ service.health_status \in {"healthy", "unknown"}
         THEN ROUTER
    ELSE IF /\ service.rest_url # NoUrl
            /\ service.health_status \in {"healthy", "degraded", "unknown"}
         THEN REST
    ELSE DISABLED

\* The registry and cache contents an operation works on, threaded through
\* the helpers below the way the handlers thread the session and Redis.
Store == [reg |-> registry, mc |-> method_cache, hc |-> health_cache,
          mttl |-> method_ttl, httl |-> health_ttl]

\* ------------------------------------------------------------------------
\* ServiceRegistryManager
\* ------------------------------------------------------------------------

\* The title and description the scanner reads from a service's main.py
\* (as first scanned, and after the file was edited), and a text an
\* administrator sets through update_service_config.
ScannedText == "scanned"
EditedText == "edited"
CustomText == "custom"
ScannerTexts == {ScannedText, EditedText}

\* The priority of a row created by discovery, and one set by hand.
DefaultPriority == 100
CustomPriority == 10

\* ServiceScanner._analyze_service: the ServiceInfo of a service directory
\* (router_path goes with has_router).
ServiceInfo(has_router, display_name, description) ==
    [has_router |-> has_router, display_name |-> display_name,
     description |-> description]

\* The scan of directories whose main.py is as first scanned: has_router[n]
\* tells whether service n has a router.py.
scanned(has_router) ==
    [name \in DOMAIN has_router |->
        ServiceInfo(has_router[name], ScannedText, ScannedText)]

\* A new row that starts out inactive.
_create_service_from_discovery_Inactive(service_info) ==
    [connection_method |-> IF service_info.has_router THEN ROUTER ELSE REST,
     rest_url          |-> DefaultUrl,
     is_active         |-> FALSE,
     health_status     |-> "unknown",
     auto_discovered   |-> TRUE,
     has_router        |-> service_info.has_router,
     display_name      |-> service_info.display_name,
     description       |-> service_info.description,
     priority          |-> DefaultPriority]

\* ServiceRegistryManager._create_service_from_discovery
_create_service_from_discovery(service_info) ==
    [connection_method |-> IF service_info.has_router THEN ROUTER ELSE REST,
     rest_url          |-> DefaultUrl,
     is_active         |-> TRUE,
     health_status     |-> "unknown",
     auto_discovered   |-> TRUE,
     has_router        |-> service_info.has_router,
     display_name      |-> service_info.display_name,
     description       |-> service_info.description,
     priority          |-> DefaultPriority]

\* ServiceRegistryManager._update_service_from_discovery: display_name and
\* rest_url follow the scan only for an auto-discovered row, description
\* and has_router/router_path for every row (port is not modelled).
_update_service_from_discovery(service, service_info) ==
    [service EXCEPT
        !.display_name = IF service.auto_discovered
                         THEN service_info.display_name ELSE @,
        !.description = service_info.description,
        !.has_router = service_info.has_router,
        !.rest_url = IF service.auto_discovered THEN DefaultUrl ELSE @]

\* A missing row is marked inactive whether or not it was configured by hand.
should_mark_inactive_ManualToo(service) ==
    service.is_active

\* _sync_with_database's condition for marking a missing row inactive.
should_mark_inactive(service) ==
    service.is_active /\ service.auto_discovered

\* ServiceRegistryManager._sync_with_database: discovered is the set of names
\* the scanner found, info[name] the ServiceInfo of that service.
\* Rows are created or updated, missing auto-discovered rows are marked
\* inactive, auto-discovered rows that came back are reactivated.
_sync_with_database(reg, discovered, info) ==
    [name \in (DOMAIN reg) \cup discovered |->
        IF name \notin DOMAIN reg
        THEN _create_service_from_discovery(info[name])
        ELSE IF name \in discovered
        THEN LET service == _update_service_from_discovery(reg[name], info[name])
             IN IF ~service.is_active /\ service.auto_discovered
                THEN [service EXCEPT !.is_active = TRUE]
                ELSE service
        ELSE IF should_mark_inactive(reg[name])
             THEN [reg[name] EXCEPT !.is_active = FALSE]
             ELSE reg[name]]

\* The marked_inactive and reactivated lists of _sync_with_database's
\* summary.
marked_inactive(reg, discovered) ==
    {name \in (DOMAIN reg) \ discovered : should_mark_inactive(reg[name])}

reactivated(reg, discovered) ==
    {name \in (DOMAIN reg) \cap discovered :
        ~reg[name].is_active /\ reg[name].auto_discovered}

\* ServiceRegistryManager.get_active_services (as a set of names)
get_active_services(reg) ==
    {name \in DOMAIN reg : reg[name].is_active}

\* The allow-list of update_service_config.
AllowedFields == {"connection_method", "rest_url", "is_active",
                  "priority", "display_name", "description"}

\* ServiceRegistryManager.update_service_config with one keyword argument.
\* Returns the success flag and the new table; an applied update marks the
\* row as manually configured.
update_service_config(reg, name, field, value) ==
    IF name \notin DOMAIN reg THEN [ok |-> FALSE, reg |-> reg]
    ELSE IF field \notin AllowedFields THEN [ok |-> FALSE, reg |-> reg]
    ELSE LET service == reg[name]
             updated ==
                CASE field = "connection_method" -> [service EXCEPT !.connection_method = value]
                  [] field = "rest_url"          -> [service EXCEPT !.rest_url = value]
                  [] field = "is_active"         -> [service EXCEPT !.is_active = value]
                  [] field = "priority"          -> [service EXCEPT !.priority = value]
                  [] field = "display_name"      -> [service EXCEPT !.display_name = value]
                  [] field = "description"       -> [service EXCEPT !.description = value]
         IN [ok  |-> TRUE,
             reg |-> [reg EXCEPT ![name] = [updated EXCEPT !.auto_discovered = FALSE]]]

\* A health write that reports success whether or not there is a row.
update_health_status_found_Always(reg, name) ==
    TRUE

\* What update_health_status returns: False when there is no row.
update_health_status_found(reg, name) ==
    name \in DOMAIN reg

\* A health write that also marks the row as manually configured.
update_health_status_MarksManual(reg, name, status) ==
    IF name \notin DOMAIN reg THEN reg
    ELSE [reg EXCEPT ![name].health_status = status,
                     ![name].auto_discovered = FALSE]

\* ServiceRegistryManager.update_health_status (last_health_check, a
\* timestamp nothing reads, is not modelled)
update_health_status(reg, name, status) ==
    IF name \notin DOMAIN reg THEN reg
    ELSE [reg EXCEPT ![name].health_status = status]

\* ------------------------------------------------------------------------
\* CachedServiceRegistry
\* ------------------------------------------------------------------------

\* CachedServiceRegistry.CACHE_TTL and HEALTH_CACHE_TTL, in seconds.
CACHE_TTL == 300
HEALTH_CACHE_TTL == 60

\* CachedServiceRegistry._get_cached_connection_method: None is NoKey.
_get_cached_connection_method(st, name) ==
    st.mc[name]

\* A method key stored with plain SET: it never expires.
_cache_connection_method_NoExpiry(st, name, method) ==
    [st EXCEPT !.mc[name] = method, !.mttl[name] = CACHE_TTL + CACHE_TTL]

\* CachedServiceRegistry._cache_connection_method: setex(key, CACHE_TTL, value)
_cache_connection_method(st, name, method) ==
    [st EXCEPT !.mc[name] = method, !.mttl[name] = CACHE_TTL]

\* What the lookup answers for a name without a row, with DISABLED in the
\* place of the conservative default.
UnknownServiceMethod_Disabled == DISABLED

\* What the lookup answers for a name without a row.
UnknownServiceMethod == REST

\* CachedServiceRegistry.get_effective_connection_method: the cached value
\* when there is one, else the value derived from the row (REST for an
\* unknown name), cached when Redis is available.
cached_get_effective_connection_method(st, name) ==
    IF redis_available /\ _get_cached_connection_method(st, name) # NoKey
    THEN [res |-> _get_cached_connection_method(st, name), st |-> st]
    ELSE IF name \notin DOMAIN st.reg
    THEN [res |-> UnknownServiceMethod, st |-> st]
    ELSE LET effective_method == get_effective_connection_method(st.reg[name])
         IN [res |-> effective_method,
             st  |-> IF redis_available
                     THEN _cache_connection_method(st, name, effective_method)
                     ELSE st]

\* How a Redis command of one lookup ends: it answers, or it raises (the
\* server went away after initialize() had set _redis_available).
RedisOutcomes == {"ok", "raise"}

\* CachedServiceRegistry.get_effective_connection_method with the outcomes
\* of its two Redis commands as inputs. Both commands sit in try/except
\* Exception and both are guarded by _redis_available alone, which only
\* initialize() sets; redis_ops lists the commands the lookup issued.
get_effective_connection_method_io(st, name, read, write) ==
    LET reads == IF redis_available THEN <<"get">> ELSE <<>>
    IN IF redis_available /\ read = "ok"
          /\ _get_cached_connection_method(st, name) # NoKey
       THEN [res |-> _get_cached_connection_method(st, name), st |-> st,
             redis_ops |-> reads, raised |-> FALSE]
       ELSE IF name \notin DOMAIN st.reg
       THEN [res |-> UnknownServiceMethod, st |-> st,
             redis_ops |-> reads, raised |-> FALSE]
       ELSE LET effective_method == get_effective_connection_method(st.reg[name])
            IN [res |-> effective_method,
                st  |-> IF redis_available /\ write = "ok"
                        THEN _cache_connection_method(st, name, effective_method)
                        ELSE st,
                redis_ops |-> IF redis_available
                              THEN Append(reads, "setex") ELSE reads,
                raised |-> FALSE]

\* CachedServiceRegistry.invalidate_service_cache: deletes every key of the
\* service (rssbot:service:<name>:*).
invalidate_service_cache(st, name) ==
    IF redis_available
    THEN [st EXCEPT !.mc[name] = NoKey, !.hc[name] = NoKey,
                    !.mttl[name] = 0, !.httl[name] = 0]
    ELSE st

\* CachedServiceRegistry.update_service_health_cached: the row, then the
\* health key, then the method key is deleted.
update_service_health_cached(st, name, status) ==
    LET db == [st EXCEPT !.reg = update_health_status(st.reg, name, status)]
    IN IF redis_available
       THEN [db EXCEPT !.hc[name] = status, !.httl[name] = HEALTH_CACHE_TTL,
                       !.mc[name] = NoKey, !.mttl[name] = 0]
       ELSE db

\* CachedServiceRegistry.update_service_connection_method
update_service_connection_method(st, name, method) ==
    LET r == update_service_config(st.reg, name, "connection_method", method)
    IN IF r.ok
       THEN [ok |-> TRUE, st |-> invalidate_service_cache([st EXCEPT !.reg = r.reg], name)]
       ELSE [ok |-> FALSE, st |-> st]

\* CachedServiceRegistry.migrate_from_global_router_mode: the plan is applied
\* by bulk_set_connection_methods, one update_service_connection_method per
\* active service.
RECURSIVE bulk_set_connection_methods(_, _)
bulk_set_connection_methods(st, names) ==
    IF names = {} THEN st
    ELSE LET name == CHOOSE n \in names : TRUE
             method == IF local_router_mode /\ st.reg[name].has_router
                       THEN ROUTER ELSE REST
         IN bulk_set_connection_methods(
                update_service_connection_method(st, name, method).st,
                names \ {name})

\* CachedServiceRegistry.migrate_from_global_router_mode
migrate_from_global_router_mode(st) ==
    bulk_set_connection_methods(st, get_active_services(st.reg))

\* CachedServiceRegistry.get_services_for_router_mounting: one cached lookup
\* per active service; lookup_all is the loop's effect on the cache.
RECURSIVE lookup_all(_, _)
lookup_all(st, names) ==
    IF names = {} THEN st
    ELSE LET name == CHOOSE n \in names : TRUE
         IN lookup_all(cached_get_effective_connection_method(st, name).st,
                       names \ {name})

router_services_of(st) ==
    {name \in get_active_services(st.reg) :
        /\ cached_get_effective_connection_method(st, name).res = ROUTER
        /\ st.reg[name].has_router}

\* ------------------------------------------------------------------------
\* ServiceProxy
\* ------------------------------------------------------------------------

\* The error call() raises when no mode produced a result.
ServiceUnavailableError == "ServiceUnavailableError"

\* Marks the mode that was not attempted in a call.
Skipped == "skipped"
NotAttempted == -1

\* A _call_via_router that answers a missing method with an empty result
\* instead of raising AttributeError.
_call_via_router_raises_MissingReturns(local) ==
    local \notin {"ok", "missing"}

\* ServiceProxy._call_via_router: TRUE when it raises.  A missing attribute
\* raises AttributeError, an import failure ServiceError; both are Exceptions.
_call_via_router_raises(local) ==
    local # "ok"

\* ServiceProxy._call_via_rest: 200 returns the body, 404 raises
\* AttributeError, any other status goes to raise_for_status(), which raises
\* for a non-2xx status and returns for a 2xx one, after which the function
\* ends without a return statement.
_call_via_rest(status) ==
    IF status = TransportError THEN [raised |-> TRUE, value |-> NoneResult]
    ELSE IF status = 200 THEN [raised |-> FALSE, value |-> RemoteResult]
    ELSE IF status = 404 THEN [raised |-> TRUE, value |-> NoneResult]
    ELSE IF status \in 200..299 THEN [raised |-> FALSE, value |-> NoneResult]
    ELSE [raised |-> TRUE, value |-> NoneResult]

\* A router failure recorded like a REST failure.
RouterFailureStatus_AsDown == "down"

\* Health status _execute_service_call records after a failed router call.
RouterFailureStatus == "degraded"

\* Health status _execute_service_call records after a failed REST call.
RestFailureStatus == "down"

\* The registry check of a call that lets an inactive row through.
registry_lookup_fails_ActiveIgnored(st, name) ==
    name \notin DOMAIN st.reg

\* _execute_service_call's registry check: no row, or a row that is not
\* active.
registry_lookup_fails(st, name) ==
    name \notin DOMAIN st.reg \/ ~st.reg[name].is_active

\* ServiceProxy._execute_service_call for one service: local and remote are
\* what the in-process call and the HTTP request would do if attempted.
_execute_service_call(st, name, local, remote) ==
    IF registry_lookup_fails(st, name)
    THEN [res |-> ServiceUnavailableError, attempted |-> <<"registry_lookup">>,
          local |-> Skipped, remote |-> NotAttempted, writes |-> <<>>, st |-> st]
    ELSE
    LET service == st.reg[name]
        l1 == cached_get_effective_connection_method(st, name)
        should_use_router == l1.res = ROUTER
        l2 == cached_get_effective_connection_method(l1.st, name)
        effective_method == l2.res
        try_router == should_use_router /\ service.has_router
        router_failed == try_router /\ _call_via_router_raises(local)
        st_r == IF router_failed
                THEN update_service_health_cached(l2.st, name, RouterFailureStatus)
                ELSE l2.st
        att_r == IF router_failed THEN <<"router">> ELSE <<>>
        wr_r == IF router_failed THEN <<RouterFailureStatus>> ELSE <<>>
        try_rest == service.rest_url # NoUrl /\ effective_method # DISABLED
        rest == _call_via_rest(remote)
    IN IF try_router /\ ~router_failed
       THEN [res |-> LocalResult, attempted |-> <<>>, local |-> local,
             remote |-> NotAttempted, writes |-> <<>>, st |-> l2.st]
       ELSE IF try_rest /\ ~rest.raised
       THEN [res |-> rest.value, attempted |-> att_r,
             local |-> IF try_router THEN local ELSE Skipped,
             remote |-> remote, writes |-> wr_r, st |-> st_r]
       ELSE IF try_rest
       THEN [res |-> ServiceUnavailableError,
             attempted |-> Append(att_r, "rest"),
             local |-> IF try_router THEN local ELSE Skipped,
             remote |-> remote,
             writes |-> Append(wr_r, RestFailureStatus),
             st |-> update_service_health_cached(st_r, name, RestFailureStatus)]
       ELSE [res |-> ServiceUnavailableError, attempted |-> att_r,
             local |-> IF try_router THEN local ELSE Skipped,
             remote |-> NotAttempted, writes |-> wr_r, st |-> st_r]

\* ------------------------------------------------------------------------
\* HealthChecker
\* ------------------------------------------------------------------------

\* What GET <rest_url>/health can do; "raise" is a check_service_health that
\* ends with an exception instead of a HealthStatus.
ProbeOutcomes == {"200_healthy", "200_other", "200_not_json", "non_200",
                  "timeout", "connect_error", "raise"}

\* A probe that counts every answer other than 200 as down.
_check_rest_health_Non200Down(probe) ==
    IF probe = "200_healthy" THEN "healthy"
    ELSE IF probe \in {"200_other", "200_not_json"} THEN "degraded"
    ELSE "down"

\* HealthChecker._check_rest_health: the status of the HealthStatus returned.
_check_rest_health(probe) ==
    IF probe = "200_healthy" THEN "healthy"
    ELSE IF probe \in {"200_other", "200_not_json", "non_200"} THEN "degraded"
    ELSE "down"

\* HealthChecker._check_router_health: mounted services are assumed healthy.
_check_router_health == "healthy"

\* HealthChecker.check_service_health on the row read at the start of the
\* cycle: the status of the HealthStatus returned.
check_service_health(service, probe) ==
    LET effective_method == get_effective_connection_method(service)
    IN IF effective_method = DISABLED THEN "down"
       ELSE IF effective_method = ROUTER THEN _check_router_health
       ELSE _check_rest_health(probe)

\* The status check_all_services writes for a check that raised.
ProbeExceptionStatus == "down"

\* HealthChecker.check_all_services: every active service is probed
\* (asyncio.gather with return_exceptions=True) and each result is written
\* with registry.update_health_status; a check that raised counts as down.
check_all_services(reg, probes) ==
    [name \in DOMAIN reg |->
        IF reg[name].is_active
        THEN [reg[name] EXCEPT !.health_status =
                 IF probes[name] = "raise" THEN ProbeExceptionStatus
                 ELSE check_service_health(reg[name], probes[name])]
        ELSE reg[name]]

\* ------------------------------------------------------------------------
\* ControllerCore
\* ------------------------------------------------------------------------

\* What a mounted module's health check does: it reports a status, or raises.
ModuleOutcomes == ModuleStatuses \cup {"raise"}

\* ControllerCore._check_mounted_services_health, the status written for one
\* mounted service.
mounted_health_status(outcome) ==
    IF outcome = "raise" THEN "degraded" ELSE outcome

\* ------------------------------------------------------------------------
\* The registry, cache and router as a state machine
\* ------------------------------------------------------------------------

NoOp == [op |-> "init", name |-> "-", res |-> "-", attempted |-> <<>>,
         local |-> Skipped, remote |-> NotAttempted, writes |-> <<>>,
         down |-> {}, inputs |-> <<>>]

\* The service directories this installation has: the names the discovery
\* scan can find and the Redis keys can exist for.
ServicesOnDisk == DOMAIN method_cache

\* The names whose row has health "down" in reg2 and which the operation
\* wrote (given as written).
DownWritten(reg2, written) ==
    {name \in written \cap DOMAIN reg2 : reg2[name].health_status = "down"}

RegInit ==
    /\ registry = [name \in {} |-> 0]
    /\ method_cache = [name \in Services |-> NoKey]
    /\ health_cache = [name \in Services |-> NoKey]
    /\ method_ttl = [name \in Services |-> 0]
    /\ health_ttl = [name \in Services |-> 0]
    /\ redis_available \in BOOLEAN
    /\ local_router_mode \in BOOLEAN
    /\ mounted_services = {}
    /\ last = NoOp

SetStore(st) ==
    /\ registry' = st.reg
    /\ method_cache' = st.mc
    /\ health_cache' = st.hc
    /\ method_ttl' = st.mttl
    /\ health_ttl' = st.httl

\* ServiceRegistryManager.sync_discovered_services (admin_svc rescan)
SyncDiscoveredServices ==
    \E discovered \in SUBSET ServicesOnDisk, info \in [ServicesOnDisk -> BOOLEAN] :
        /\ registry' = _sync_with_database(registry, discovered, scanned(info))
        /\ last' = [NoOp EXCEPT !.op = "sync_discovered_services"]
        /\ UNCHANGED <<method_cache, health_cache, method_ttl, health_ttl, redis_available,
                       local_router_mode, mounted_services>>
        /\ UNCHANGED notRegVars

\* ServiceRegistryManager.sync_discovered_services over directories whose
\* main.py may have been edited since the last scan; last.inputs keeps what
\* the scanner found.
SyncScannedMetadata ==
    \E discovered \in SUBSET ServicesOnDisk,
       info \in [ServicesOnDisk ->
                   {ServiceInfo(has_router, ScannedText, description) :
                       has_router \in BOOLEAN, description \in ScannerTexts}] :
        /\ registry' = _sync_with_database(registry, discovered, info)
        /\ last' = [NoOp EXCEPT !.op = "sync_scanned_metadata",
                                !.inputs = [discovered |-> discovered, info |-> info,
                                            marked_inactive |->
                                                marked_inactive(registry, discovered),
                                            reactivated |->
                                                reactivated(registry, discovered)]]
        /\ UNCHANGED <<method_cache, health_cache, method_ttl, health_ttl, redis_available,
                       local_router_mode, mounted_services>>
        /\ UNCHANGED notRegVars

\* The mount loop of _discover_and_mount_services: a failed mount records
\* "degraded" through update_service_health_cached.
RECURSIVE mount_all(_, _, _)
mount_all(failed, st, names) ==
    IF names = {} THEN st
    ELSE LET name == CHOOSE n \in names : TRUE
         IN mount_all(failed,
                      IF name \in failed
                      THEN update_service_health_cached(st, name, "degraded")
                      ELSE st,
                      names \ {name})

\* ControllerCore._discover_and_mount_services: sync, decide what to mount,
\* mount, then the legacy migration (skipped by the early return when
\* nothing is to be mounted).
DiscoverAndMountServices ==
    \E discovered \in SUBSET ServicesOnDisk, info \in [ServicesOnDisk -> BOOLEAN],
       failed \in SUBSET ServicesOnDisk :
        LET st0 == [Store EXCEPT !.reg = _sync_with_database(registry, discovered,
                                                             scanned(info))]
            router_services == router_services_of(st0)
            st1 == lookup_all(st0, get_active_services(st0.reg))
            st2 == mount_all(failed, st1, router_services)
            st3 == IF router_services = {} THEN st2
                   ELSE migrate_from_global_router_mode(st2)
        IN /\ SetStore(st3)
           /\ mounted_services' = router_services \ failed
           /\ last' = [NoOp EXCEPT !.op = "discover_and_mount_services"]
           /\ UNCHANGED <<redis_available, local_router_mode>>
           /\ UNCHANGED notRegVars

\* CachedServiceRegistry.get_effective_connection_method
GetEffectiveConnectionMethod(name) ==
    LET r == cached_get_effective_connection_method(Store, name)
    IN /\ SetStore(r.st)
       /\ last' = [NoOp EXCEPT !.op = "get_effective_connection_method",
                               !.name = name, !.res = r.res,
                               !.inputs = [cached |-> method_cache[name],
                                           expired |-> /\ last.op = "tick"
                                                       /\ name \in last.down]]
       /\ UNCHANGED <<redis_available, local_router_mode, mounted_services>>
       /\ UNCHANGED notRegVars

\* CachedServiceRegistry.get_effective_connection_method while Redis may
\* fail under it: last.inputs keeps what the call met, last.writes the Redis
\* commands it issued.
LookupWithRedisOutcome(name, read, write) ==
    LET r == get_effective_connection_method_io(Store, name, read, write)
    IN /\ SetStore(r.st)
       /\ last' = [NoOp EXCEPT !.op = "lookup_with_redis_outcome",
                               !.name = name, !.res = r.res,
                               !.writes = r.redis_ops,
                               !.inputs = [read |-> read, write |-> write,
                                           raised |-> r.raised,
                                           had_row |-> name \in DOMAIN registry,
                                           cached |-> method_cache[name]]]
       /\ UNCHANGED <<redis_available, local_router_mode, mounted_services>>
       /\ UNCHANGED notRegVars

\* RegisteredService.get_effective_connection_method called on the row of
\* one service.
RowEffectiveMethod(name) ==
    /\ name \in DOMAIN registry
    /\ last' = [NoOp EXCEPT !.op = "row_effective_method", !.name = name,
                            !.res = get_effective_connection_method(registry[name])]
    /\ UNCHANGED <<registry, method_cache, health_cache, method_ttl, health_ttl,
                   redis_available, local_router_mode, mounted_services>>
    /\ UNCHANGED notRegVars

\* What _check_rest_health raises for a row without rest_url.
HealthCheckError == "HealthCheckError"

\* HealthChecker._check_rest_health on the row of one service: probe is what
\* GET <rest_url>/health does.
CheckRestHealth(name, probe) ==
    /\ name \in DOMAIN registry
    /\ last' = [NoOp EXCEPT !.op = "_check_rest_health", !.name = name,
                            !.res = IF registry[name].rest_url = NoUrl
                                    THEN HealthCheckError
                                    ELSE _check_rest_health(probe),
                            !.inputs = <<probe>>]
    /\ UNCHANGED <<registry, method_cache, health_cache, method_ttl, health_ttl,
                   redis_available, local_router_mode, mounted_services>>
    /\ UNCHANGED notRegVars

\* CachedServiceRegistry.update_service_connection_method (controller
\* endpoint /services/{name}/connection-method, migration utilities)
UpdateServiceConnectionMethod(name, method) ==
    LET r == update_service_connection_method(Store, name, method)
    IN /\ SetStore(r.st)
       /\ last' = [NoOp EXCEPT !.op = "update_service_connection_method",
                               !.name = name,
                               !.res = IF r.ok THEN "true" ELSE "false"]
       /\ UNCHANGED <<redis_available, local_router_mode, mounted_services>>
       /\ UNCHANGED notRegVars

\* ServiceRegistryManager.update_health_status called on its own.
UpdateHealthStatus(name, status) ==
    /\ registry' = update_health_status(registry, name, status)
    /\ last' = [NoOp EXCEPT !.op = "update_health_status",
                            !.name = name,
                            !.res = IF update_health_status_found(registry, name)
                                    THEN "true" ELSE "false",
                            !.inputs = <<status>>]
    /\ UNCHANGED <<method_cache, health_cache, method_ttl, health_ttl, redis_available,
                   local_router_mode, mounted_services>>
    /\ UNCHANGED notRegVars

\* ServiceRegistryManager.update_service_config as the admin_svc endpoints
\* call it (/services/{name}/method, /active, /url)
UpdateServiceConfig(name, field, value) ==
    LET r == update_service_config(registry, name, field, value)
    IN /\ registry' = r.reg
       /\ last' = [NoOp EXCEPT !.op = "update_service_config",
                               !.name = name,
                               !.res = IF r.ok THEN "true" ELSE "false",
                               !.inputs = <<field>>]
       /\ UNCHANGED <<method_cache, health_cache, method_ttl, health_ttl, redis_available,
                      local_router_mode, mounted_services>>
       /\ UNCHANGED notRegVars

\* CachedServiceRegistry.migrate_from_global_router_mode (controller endpoint
\* /admin/migrate-from-legacy)
MigrateFromLegacy ==
    /\ SetStore(migrate_from_global_router_mode(Store))
    /\ last' = [NoOp EXCEPT !.op = "migrate_from_global_router_mode"]
    /\ UNCHANGED <<redis_available, local_router_mode, mounted_services>>
    /\ UNCHANGED notRegVars

\* CachedServiceRegistry.invalidate_all_cache (controller endpoint DELETE
\* /admin/cache)
InvalidateAllCache ==
    /\ redis_available
    /\ method_cache' = [name \in ServicesOnDisk |-> NoKey]
    /\ health_cache' = [name \in ServicesOnDisk |-> NoKey]
    /\ method_ttl' = [name \in ServicesOnDisk |-> 0]
    /\ health_ttl' = [name \in ServicesOnDisk |-> 0]
    /\ last' = [NoOp EXCEPT !.op = "invalidate_all_cache"]
    /\ UNCHANGED <<registry, redis_available, local_router_mode, mounted_services>>
    /\ UNCHANGED notRegVars

\* Redis drops a key whose TTL (CACHE_TTL, HEALTH_CACHE_TTL) has run out.
ExpireKey(name) ==
    /\ \/ /\ method_cache[name] # NoKey
          /\ method_cache' = [method_cache EXCEPT ![name] = NoKey]
          /\ method_ttl' = [method_ttl EXCEPT ![name] = 0]
          /\ UNCHANGED <<health_cache, health_ttl>>
       \/ /\ health_cache[name] # NoKey
          /\ health_cache' = [health_cache EXCEPT ![name] = NoKey]
          /\ health_ttl' = [health_ttl EXCEPT ![name] = 0]
          /\ UNCHANGED <<method_cache, method_ttl>>
    /\ last' = [NoOp EXCEPT !.op = "expire", !.name = name]
    /\ UNCHANGED <<registry, redis_available, local_router_mode, mounted_services>>
    /\ UNCHANGED notRegVars

\* The step of the clock, in seconds.
TickSeconds == 30

\* What a key has left to live after TickSeconds more seconds.
aged(ttl) ==
    IF ttl > TickSeconds THEN ttl - TickSeconds ELSE 0

\* TickSeconds pass: every key ages, and Redis drops the keys whose TTL has
\* run out (last.down names the services whose method key was dropped).
Tick ==
    /\ \E name \in ServicesOnDisk : method_ttl[name] > 0 \/ health_ttl[name] > 0
    /\ method_ttl' = [name \in ServicesOnDisk |-> aged(method_ttl[name])]
    /\ health_ttl' = [name \in ServicesOnDisk |-> aged(health_ttl[name])]
    /\ method_cache' = [name \in ServicesOnDisk |->
                           IF method_ttl'[name] = 0 THEN NoKey ELSE method_cache[name]]
    /\ health_cache' = [name \in ServicesOnDisk |->
                           IF health_ttl'[name] = 0 THEN NoKey ELSE health_cache[name]]
    /\ last' = [NoOp EXCEPT !.op = "tick",
                            !.down = {name \in ServicesOnDisk :
                                         method_cache[name] # NoKey
                                         /\ method_cache'[name] = NoKey}]
    /\ UNCHANGED <<registry, redis_available, local_router_mode, mounted_services>>
    /\ UNCHANGED notRegVars

\* ServiceProxy.<method>(...) -> _execute_service_call
ExecuteServiceCall(name, local, remote) ==
    LET r == _execute_service_call(Store, name, local, remote)
    IN /\ r.local \in {local, Skipped}
       /\ (r.local = Skipped => local = "ok")
       /\ (r.remote = NotAttempted => remote = 200)
       /\ SetStore(r.st)
       /\ last' = [NoOp EXCEPT !.op = "call", !.name = name, !.res = r.res,
                               !.attempted = r.attempted, !.local = r.local,
                               !.remote = r.remote, !.writes = r.writes,
                               !.down = IF r.writes # <<>>
                                        THEN DownWritten(r.st.reg, {name}) ELSE {}]
       /\ UNCHANGED <<redis_available, local_router_mode, mounted_services>>
       /\ UNCHANGED notRegVars

\* HealthChecker.check_all_services (one cycle of _monitoring_loop, or a
\* direct call)
CheckAllServices ==
    \E probes \in [ServicesOnDisk -> ProbeOutcomes] :
        /\ get_active_services(registry) # {}
        /\ registry' = check_all_services(registry, probes)
        /\ last' = [NoOp EXCEPT !.op = "check_all_services",
                                !.down = DownWritten(registry', get_active_services(registry)),
                                !.inputs = [name \in get_active_services(registry) |->
                                              probes[name]]]
        /\ UNCHANGED <<method_cache, health_cache, method_ttl, health_ttl, redis_available,
                       local_router_mode, mounted_services>>
        /\ UNCHANGED notRegVars

\* The loop of _check_mounted_services_health: one
\* update_service_health_cached per mounted service.
RECURSIVE check_mounted_all(_, _, _)
check_mounted_all(outcomes, st, names) ==
    IF names = {} THEN st
    ELSE LET name == CHOOSE n \in names : TRUE
         IN check_mounted_all(outcomes,
                update_service_health_cached(st, name,
                    mounted_health_status(outcomes[name])),
                names \ {name})

\* ControllerCore._check_mounted_services_health (one cycle of
\* _health_monitor_loop)
CheckMountedServicesHealth ==
    \E outcomes \in [ServicesOnDisk -> ModuleOutcomes] :
        /\ mounted_services # {}
        /\ SetStore(check_mounted_all(outcomes, Store, mounted_services))
        /\ last' = [NoOp EXCEPT !.op = "check_mounted_services_health",
                                !.down = DownWritten(registry', mounted_services),
                                !.inputs = [name \in mounted_services |->
                                              outcomes[name]]]
        /\ UNCHANGED <<redis_available, local_router_mode, mounted_services>>
        /\ UNCHANGED notRegVars

RegNext ==
    \/ SyncDiscoveredServices
    \/ DiscoverAndMountServices
    \/ \E name \in Services : GetEffectiveConnectionMethod(name)
    \/ \E name \in Services, method \in ConnectionMethod :
          UpdateServiceConnectionMethod(name, method)
    \/ \E name \in Services, method \in ConnectionMethod :
          UpdateServiceConfig(name, "connection_method", method)
    \/ \E name \in Services, value \in BOOLEAN :
          UpdateServiceConfig(name, "is_active", value)
    \/ \E name \in Services, url \in RestUrls :
          UpdateServiceConfig(name, "rest_url", url)
    \/ MigrateFromLegacy
    \/ InvalidateAllCache
    \/ \E name \in Services : ExpireKey(name)
    \/ \E name \in Services, local \in LocalOutcomes, remote \in RemoteOutcomes :
          ExecuteServiceCall(name, local, remote)
    \/ CheckAllServices
    \/ CheckMountedServicesHealth

\* ------------------------------------------------------------------------
\* PriorityAwareQueue (evox)
\* ------------------------------------------------------------------------

\* PriorityLevel enum values.
HIGH == "high"
MEDIUM == "medium"
LOW == "low"
PriorityLevel == {HIGH, MEDIUM, LOW}

\* The queue's configuration: config["queue_limits"] and
\* config["concurrency_limits"], here a small instance of it.
MaxQueueHigh == 1
MaxQueueMedium == 1
MaxQueueLow == 2
MaxWorkersHigh == 1
MaxWorkersMedium == 1
MaxWorkersLow == 1

\* Bound on the rejections counted per lane.
MaxRejections == 1

\* PriorityAwareQueue.__init__: maxsize of each lane's asyncio.Queue
queue_limits ==
    [p \in PriorityLevel |->
        IF p = HIGH THEN MaxQueueHigh
        ELSE IF p = MEDIUM THEN MaxQueueMedium ELSE MaxQueueLow]

\* PriorityAwareQueue.__init__: concurrency_limits
concurrency_limits ==
    [p \in PriorityLevel |->
        IF p = HIGH THEN MaxWorkersHigh
        ELSE IF p = MEDIUM THEN MaxWorkersMedium ELSE MaxWorkersLow]

\* A fullness test that is off by one: a queue at its cap still accepts.
QueueIsFull_OffByOne(qsize, maxsize) ==
    maxsize > 0 /\ qsize > maxsize

\* asyncio.Queue.full() as put_nowait tests it: a maxsize of 0 or less means
\* the queue is unbounded.
QueueIsFull(qsize, maxsize) ==
    maxsize > 0 /\ qsize >= maxsize

\* asyncio.Queue occupancy after a submit's call has ended: submit() and
\* _execute_request() never take the request out of the asyncio.Queue.
QueueAfterFinish(qsize) ==
    qsize

\* A decrement that is lost: the count of an ended call stays.
DecrementFloor_Lost(n) ==
    n

\* PriorityQueueStats.decrement_queue_length / the max(0, n - 1) of
\* _execute_request's finally block
DecrementFloor(n) ==
    IF n - 1 > 0 THEN n - 1 ELSE 0

\* PriorityQueueStats.add_error keeps the last ErrorLogLimit entries.
ErrorLogLimit == 100

\* A log that drops the newest entry once it is full.
add_error_DropNewest(log, priority) ==
    LET appended == Append(log, priority)
    IN IF Len(appended) > ErrorLogLimit
       THEN SubSeq(appended, 1, ErrorLogLimit) ELSE appended

\* PriorityQueueStats.add_error (the entry is the lane of the failed call)
add_error(log, priority) ==
    LET appended == Append(log, priority)
    IN IF Len(appended) > ErrorLogLimit THEN Tail(appended) ELSE appended

\* How the awaited operation of an admitted call ends: it returns, raises,
\* runs past the timeout its submit was given, or the caller of submit is
\* cancelled.
Outcomes == {"ok", "error", "timeout", "cancelled"}

\* The calls of a lane that are awaiting their operation.
InFlight(p) == in_flight[p]

\* The lane's observable numbers, as recorded before an operation.
LaneSnapshot(p) ==
    [queue |-> queues[p], queue_length |-> queue_lengths[p],
     active |-> active_workers[p], rejections |-> admission_rejections[p],
     processed |-> processed_count[p], in_flight |-> InFlight(p)]

QueueInit ==
    /\ queues = [p \in PriorityLevel |-> 0]
    /\ active_workers = [p \in PriorityLevel |-> 0]
    /\ queue_lengths = [p \in PriorityLevel |-> 0]
    /\ admission_rejections = [p \in PriorityLevel |-> 0]
    /\ processed_count = [p \in PriorityLevel |-> 0]
    /\ errors = <<>>
    /\ in_flight = [p \in PriorityLevel |-> 0]
    /\ qlast = [op |-> "init", priority |-> "-", res |-> "-",
                before |-> [queue |-> 0, queue_length |-> 0, active |-> 0,
                            rejections |-> 0, processed |-> 0, in_flight |-> 0]]

\* PriorityAwareQueue.submit up to the await of the operation: put_nowait
\* succeeds, the stats count the call, _execute_request counts an active
\* worker and a processed call and starts the operation.
SubmitAdmitted(priority) ==
    /\ ~QueueIsFull(queues[priority], queue_limits[priority])
    /\ queues' = [queues EXCEPT ![priority] = @ + 1]
    /\ queue_lengths' = [queue_lengths EXCEPT ![priority] = @ + 1]
    /\ active_workers' = [active_workers EXCEPT ![priority] = @ + 1]
    /\ processed_count' = [processed_count EXCEPT ![priority] = @ + 1]
    /\ in_flight' = [in_flight EXCEPT ![priority] = @ + 1]
    /\ qlast' = [op |-> "submit", priority |-> priority, res |-> "admitted",
                 before |-> LaneSnapshot(priority)]
    /\ UNCHANGED <<admission_rejections, errors>>
    /\ UNCHANGED notQueueVars

\* A rejection decided on one budget shared by the three lanes.
SubmitRejected_SharedBudget(priority) ==
    /\ QueueIsFull(queues[HIGH] + queues[MEDIUM] + queues[LOW],
                   queue_limits[priority])
    /\ admission_rejections[priority] < MaxRejections
    /\ admission_rejections' = [admission_rejections EXCEPT ![priority] = @ + 1]
    /\ qlast' = [op |-> "submit", priority |-> priority, res |-> "QueueFull",
                 before |-> LaneSnapshot(priority)]
    /\ UNCHANGED <<queues, queue_lengths, active_workers, processed_count,
                   errors, in_flight>>
    /\ UNCHANGED notQueueVars

\* PriorityAwareQueue.submit when put_nowait raises QueueFull: the rejection
\* is counted and RuntimeError("Queue full ...") is raised.
SubmitRejected(priority) ==
    /\ QueueIsFull(queues[priority], queue_limits[priority])
    /\ admission_rejections[priority] < MaxRejections
    /\ admission_rejections' = [admission_rejections EXCEPT ![priority] = @ + 1]
    /\ qlast' = [op |-> "submit", priority |-> priority, res |-> "QueueFull",
                 before |-> LaneSnapshot(priority)]
    /\ UNCHANGED <<queues, queue_lengths, active_workers, processed_count,
                   errors, in_flight>>
    /\ UNCHANGED notQueueVars

\* The rest of submit once the awaited operation has ended: _execute_request
\* logs an Exception (a TimeoutError included), its finally releases the
\* active worker, submit's finally decrements the stats' queue length.
Finish(priority, outcome) ==
    /\ in_flight[priority] > 0
    /\ in_flight' = [in_flight EXCEPT ![priority] = @ - 1]
    /\ errors' = IF outcome \in {"error", "timeout"}
                 THEN add_error(errors, priority) ELSE errors
    /\ active_workers' = [active_workers EXCEPT ![priority] = DecrementFloor(@)]
    /\ queue_lengths' = [queue_lengths EXCEPT ![priority] = DecrementFloor(@)]
    /\ queues' = [queues EXCEPT ![priority] = QueueAfterFinish(@)]
    /\ qlast' = [op |-> "finish", priority |-> priority, res |-> outcome,
                 before |-> LaneSnapshot(priority)]
    /\ UNCHANGED <<admission_rejections, processed_count>>
    /\ UNCHANGED notQueueVars

\* Bound on the calls the error-log specification executes, the logged ones
\* of its initial state included.
MaxLoggedCalls == 102

\* The calls the stats have counted as executed, over the three lanes.
total_processed ==
    processed_count[HIGH] + processed_count[MEDIUM] + processed_count[LOW]

\* PriorityAwareQueue._execute_request with an operation that raises an
\* Exception: the active worker and the processed call are counted, the
\* except branch logs the error and re-raises, the finally block releases
\* the worker.
ExecuteRequestRaises(priority) ==
    /\ total_processed < MaxLoggedCalls
    /\ processed_count' = [processed_count EXCEPT ![priority] = @ + 1]
    /\ errors' = add_error(errors, priority)
    /\ active_workers' = [active_workers EXCEPT
                             ![priority] = DecrementFloor(@ + 1)]
    /\ qlast' = [op |-> "_execute_request", priority |-> priority,
                 res |-> "error", before |-> LaneSnapshot(priority)]
    /\ UNCHANGED <<queues, queue_lengths, admission_rejections, in_flight>>
    /\ UNCHANGED notQueueVars

QueueNext ==
    \/ \E priority \in PriorityLevel : SubmitAdmitted(priority)
    \/ \E priority \in PriorityLevel : SubmitRejected(priority)
    \/ \E priority \in PriorityLevel, outcome \in Outcomes :
          Finish(priority, outcome)

\* ------------------------------------------------------------------------
\* gather / parallel (evox)
\* ------------------------------------------------------------------------

\* The three entry points that run a batch of operations.
QueueGather == "PriorityAwareQueue.gather"
ProxyGather == "ServiceProxy.gather"
SchedulerParallel == "CallScheduler.parallel"
GatherImpls == {QueueGather, ProxyGather, SchedulerParallel}

\* Policy values ("partial" / Policy.PARTIAL_OK, "all_or_nothing" /
\* Policy.ALL_OR_NOTHING).
PARTIAL_OK == "partial_ok"
ALL_OR_NOTHING == "all_or_nothing"
Policies == {PARTIAL_OK, ALL_OR_NOTHING}

\* Bounds on a batch: its length and the concurrency argument.
MaxBatch == 3
MaxConcurrency == 2

\* How an operation of the batch ends: it returns a value or raises.
OpOutcomes == {"ok", "fail"}

\* The policies an entry point can be called with: PriorityAwareQueue.gather
\* has no policy parameter and behaves as the partial policy describes.
PoliciesOf(impl) ==
    IF impl = QueueGather THEN {PARTIAL_OK} ELSE Policies

\* Whether a failing operation becomes an entry of the result list:
\* PriorityAwareQueue.gather awaits asyncio.gather(return_exceptions=True),
\* ServiceProxy.gather passes its calls to it and never reads its policy
\* argument, CallScheduler.parallel collects {"error": ...} unless the policy
\* is ALL_OR_NOTHING, where it awaits a plain asyncio.gather.
collects_failures(impl, policy) ==
    IF impl = SchedulerParallel THEN policy # ALL_OR_NOTHING ELSE TRUE

\* The input index whose outcome each position of the result list holds:
\* asyncio.gather keeps the order of its arguments, the as_completed loop of
\* CallScheduler.parallel appends in completion order.
result_order(impl, policy, n, order) ==
    IF impl = SchedulerParallel /\ policy # ALL_OR_NOTHING
    THEN order
    ELSE [i \in 1..n |-> i]

\* An entry of the result list: the value of input i, or the wrapped error
\* of input i (the exception object, or {"error": str(e)}).
result_entry(outcome, i) ==
    [index |-> i, ok |-> outcome[i] = "ok"]

\* The operations holding the semaphore.
Running(state) ==
    {i \in DOMAIN state : state[i] = "running"}

\* The end of "async with semaphore" for operation i: asyncio.Semaphore
\* wakes the waiter that has waited longest, which then starts.
release(state, i) ==
    LET ended == [state EXCEPT ![i] = "done"]
        waiting == {j \in DOMAIN state : state[j] = "waiting"}
    IN IF waiting = {}
       THEN ended
       ELSE [ended EXCEPT ![CHOOSE j \in waiting : \A k \in waiting : j <= k]
                             = "running"]

\* Whether one of the operations that have ended has raised.
HasFailed(outcome, order) ==
    \E k \in DOMAIN order : outcome[order[k]] = "fail"

NoBatch ==
    [impl |-> "none", policy |-> PARTIAL_OK, priority |-> MEDIUM,
     concurrency |-> 0, outcome |-> <<>>, state |-> <<>>, order |-> <<>>,
     result |-> "none", value |-> <<>>, error |-> 0, late_starts |-> {}]

GatherInit ==
    batch = NoBatch

\* The call of gather / parallel: the semaphore is created, every operation
\* is wrapped and scheduled, the first `concurrency` of them take the
\* semaphore and start, the others wait for it.
GatherStart(impl, policy, priority, concurrency, outcome) ==
    /\ batch.result = "none"
    /\ batch' = [impl |-> impl, policy |-> policy, priority |-> priority,
                 concurrency |-> concurrency, outcome |-> outcome,
                 state |-> [i \in 1..Len(outcome) |->
                              IF i <= concurrency THEN "running" ELSE "waiting"],
                 order |-> <<>>, result |-> "pending", value |-> <<>>,
                 error |-> 0, late_starts |-> {}]
    /\ UNCHANGED notGatherVars

\* A running operation of the batch ends (with its value or its exception):
\* the semaphore is released and the next waiter starts; a plain
\* asyncio.gather passes the first exception to the caller at once and leaves
\* the other tasks alone; otherwise the caller gets the result list when the
\* last operation has ended.
OperationEnds(i) ==
    /\ batch.result # "none"
    /\ i \in DOMAIN batch.state
    /\ batch.state[i] = "running"
    /\ LET state2 == release(batch.state, i)
           order2 == Append(batch.order, i)
           n == Len(batch.outcome)
           started == Running(state2) \ Running(batch.state)
           pending == batch.result = "pending"
           raises == /\ batch.outcome[i] = "fail"
                     /\ ~collects_failures(batch.impl, batch.policy)
           all_done == \A j \in 1..n : state2[j] = "done"
           positions == result_order(batch.impl, batch.policy, n, order2)
       IN batch' = [batch EXCEPT
                      !.state = state2,
                      !.order = order2,
                      !.late_starts = IF HasFailed(batch.outcome, order2)
                                      THEN @ \cup started ELSE @,
                      !.result = IF ~pending THEN @
                                 ELSE IF raises THEN "raised"
                                 ELSE IF all_done THEN "returned" ELSE @,
                      !.error = IF pending /\ raises THEN i ELSE @,
                      !.value = IF pending /\ ~raises /\ all_done
                                THEN [k \in 1..n |->
                                        result_entry(batch.outcome, positions[k])]
                                ELSE @]
    /\ UNCHANGED notGatherVars

GatherNext ==
    \/ \E impl \in GatherImpls, priority \in PriorityLevel,
          concurrency \in 1..MaxConcurrency, n \in 1..MaxBatch :
          \E policy \in PoliciesOf(impl), outcome \in [1..n -> OpOutcomes] :
             GatherStart(impl, policy, priority, concurrency, outcome)
    \/ \E i \in 1..MaxBatch : OperationEnds(i)

\* ------------------------------------------------------------------------
\* The background health loops
\* ------------------------------------------------------------------------

\* HealthChecker._monitoring_loop and ControllerCore._health_monitor_loop
HealthCheckerLoop == "HealthChecker._monitoring_loop"
ControllerLoop == "ControllerCore._health_monitor_loop"
Monitors == {HealthCheckerLoop, ControllerLoop}

\* Where a loop's task is: not created yet, in a cycle, in the sleep after a
\* cycle, in the sleep after a cycle that raised, or ended.
MonitorPositions == {"not_started", "cycle", "sleep", "backoff", "ended"}

\* A loop that lets the exception of a cycle end its task.
OnCycleException_Escapes == "ended"

\* The except Exception branch of both loops: log, then sleep (10 s in
\* HealthChecker, 300 s in the controller) and go round the loop again.
OnCycleException == "backoff"

\* The loop condition after a sleep: `while self._running` in HealthChecker,
\* `while True` in the controller.
AfterSleep(m, running) ==
    IF m = HealthCheckerLoop /\ ~running THEN "ended" ELSE "cycle"

MonitorInit ==
    monitor = [pos |-> [m \in Monitors |-> "not_started"],
               _running |-> FALSE,
               event |-> [who |-> "-", what |-> "init"]]

\* HealthChecker.start_monitoring
StartMonitoring ==
    /\ ~monitor._running
    /\ monitor' = [monitor EXCEPT !._running = TRUE,
                                  !.pos[HealthCheckerLoop] = "cycle",
                                  !.event = [who |-> HealthCheckerLoop,
                                             what |-> "start_monitoring"]]
    /\ UNCHANGED regVars
    /\ UNCHANGED notMonitorVars

\* ControllerCore.initialize, after _discover_and_mount_services:
\* asyncio.create_task(self._health_monitor_loop())
StartHealthMonitorLoop ==
    /\ last.op # "init"
    /\ monitor.pos[ControllerLoop] = "not_started"
    /\ monitor' = [monitor EXCEPT !.pos[ControllerLoop] = "cycle",
                                  !.event = [who |-> ControllerLoop,
                                             what |-> "create_task"]]
    /\ UNCHANGED regVars
    /\ UNCHANGED notMonitorVars

\* One pass of HealthChecker._monitoring_loop's try block up to the sleep:
\* check_all_services returns (having written every active service's
\* result), or raises (the registry cannot be read or written).
HealthCheckerCycle ==
    /\ monitor.pos[HealthCheckerLoop] = "cycle"
    /\ \/ /\ monitor' = [monitor EXCEPT !.pos[HealthCheckerLoop] = OnCycleException,
                                         !.event = [who |-> HealthCheckerLoop,
                                                    what |-> "cycle_raised"]]
          /\ UNCHANGED regVars
       \/ \E probes \in [ServicesOnDisk -> ProbeOutcomes] :
             /\ monitor' = [monitor EXCEPT !.pos[HealthCheckerLoop] = "sleep",
                                            !.event = [who |-> HealthCheckerLoop,
                                                       what |-> "cycle_ok"]]
             /\ IF get_active_services(registry) = {}
                THEN UNCHANGED regVars
                ELSE /\ registry' = check_all_services(registry, probes)
                     /\ last' = [NoOp EXCEPT
                            !.op = "check_all_services",
                            !.down = DownWritten(registry', get_active_services(registry)),
                            !.inputs = [name \in get_active_services(registry) |->
                                          probes[name]]]
                     /\ UNCHANGED <<method_cache, health_cache, method_ttl, health_ttl, redis_available,
                                    local_router_mode, mounted_services>>
    /\ UNCHANGED notMonitorVars

\* One pass of ControllerCore._health_monitor_loop's try block up to the
\* sleep: _check_mounted_services_health returns, or raises (the write in
\* its own except branch failed).
ControllerCycle ==
    /\ monitor.pos[ControllerLoop] = "cycle"
    /\ \/ /\ monitor' = [monitor EXCEPT !.pos[ControllerLoop] = OnCycleException,
                                         !.event = [who |-> ControllerLoop,
                                                    what |-> "cycle_raised"]]
          /\ UNCHANGED regVars
       \/ \E outcomes \in [ServicesOnDisk -> ModuleOutcomes] :
             /\ monitor' = [monitor EXCEPT !.pos[ControllerLoop] = "sleep",
                                            !.event = [who |-> ControllerLoop,
                                                       what |-> "cycle_ok"]]
             /\ IF mounted_services = {}
                THEN UNCHANGED regVars
                ELSE /\ SetStore(check_mounted_all(outcomes, Store, mounted_services))
                     /\ last' = [NoOp EXCEPT
                            !.op = "check_mounted_services_health",
                            !.down = DownWritten(registry', mounted_services),
                            !.inputs = [name \in mounted_services |-> outcomes[name]]]
                     /\ UNCHANGED <<redis_available, local_router_mode,
                                    mounted_services>>
    /\ UNCHANGED notMonitorVars

\* asyncio.sleep after a cycle returns: back to the loop condition.
SleepEnds(m) ==
    /\ monitor.pos[m] = "sleep"
    /\ monitor' = [monitor EXCEPT !.pos[m] = AfterSleep(m, monitor._running),
                                  !.event = [who |-> m, what |-> "sleep_ended"]]
    /\ UNCHANGED regVars
    /\ UNCHANGED notMonitorVars

\* asyncio.sleep of the except branch returns: back to the loop condition.
BackoffEnds(m) ==
    /\ monitor.pos[m] = "backoff"
    /\ monitor' = [monitor EXCEPT !.pos[m] = AfterSleep(m, monitor._running),
                                  !.event = [who |-> m, what |-> "backoff_ended"]]
    /\ UNCHANGED regVars
    /\ UNCHANGED notMonitorVars

\* HealthChecker.stop_monitoring: _running is cleared and the task, if there
\* is one, is cancelled and awaited.
StopMonitoring ==
    /\ monitor' = [monitor EXCEPT
                     !._running = FALSE,
                     !.pos[HealthCheckerLoop] =
                        IF @ = "not_started" THEN @ ELSE "ended",
                     !.event = [who |-> HealthCheckerLoop,
                                what |-> "stop_monitoring"]]
    /\ UNCHANGED regVars
    /\ UNCHANGED notMonitorVars

\* The loop's task is cancelled (event loop shutdown): CancelledError is
\* raised at the await the task is suspended in; HealthChecker breaks on it,
\* the controller's `except Exception` does not catch it.
CancelTask(m) ==
    /\ monitor.pos[m] \in {"cycle", "sleep", "backoff"}
    /\ monitor' = [monitor EXCEPT !.pos[m] = "ended",
                                  !.event = [who |-> m, what |-> "cancelled"]]
    /\ UNCHANGED regVars
    /\ UNCHANGED notMonitorVars

MonitorNext ==
    \/ last.op = "init" /\ DiscoverAndMountServices
    \/ StartMonitoring
    \/ StartHealthMonitorLoop
    \/ HealthCheckerCycle
    \/ ControllerCycle
    \/ \E m \in Monitors : SleepEnds(m)
    \/ \E m \in Monitors : BackoffEnds(m)
    \/ StopMonitoring
    \/ \E m \in Monitors : CancelTask(m)

\* ------------------------------------------------------------------------
\* _execute_service_call, await by await
\* ------------------------------------------------------------------------

\* The coroutines that call the service through its ServiceProxy.
Callers == {"c1", "c2"}

\* Where a call stands: before each await of _execute_service_call that
\* other coroutines can run in front of.
CallPositions == {"idle", "lookup", "lookup_write", "lookup2", "lookup2_write",
                  "router", "record_degraded", "rest", "record_down", "raise"}

IdleCall == [pc |-> "idle", name |-> "-", has_router |-> FALSE,
             rest_url |-> NoUrl, should_use_router |-> FALSE,
             effective_method |-> DISABLED, remote |-> NotAttempted,
             health_at_start |-> "-", pending |-> NoKey,
             events |-> <<>>]

CallInit ==
    calls = [c \in Callers |-> IdleCall]

\* What a call step changes besides the registry and the cache.
CallFrame ==
    /\ UNCHANGED <<redis_available, local_router_mode, mounted_services, last>>
    /\ UNCHANGED notCallVars

CallStoreUnchanged ==
    UNCHANGED <<registry, method_cache, health_cache, method_ttl, health_ttl>>

\* proxy.py 85-87: the registry check; the row read here is the one the
\* rest of the call uses.
CallStart(c, name) ==
    /\ calls[c].pc = "idle"
    /\ calls' = [calls EXCEPT ![c] =
          IF registry_lookup_fails(Store, name)
          THEN [IdleCall EXCEPT !.name = name,
                                !.events = <<"raise_registry_lookup">>]
          ELSE [IdleCall EXCEPT !.pc = "lookup", !.name = name,
                                !.has_router = registry[name].has_router,
                                !.rest_url = registry[name].rest_url,
                                !.health_at_start = registry[name].health_status]]
    /\ CallStoreUnchanged
    /\ CallFrame

\* proxy.py 90-91: should_use_router, then get_effective_connection_method.
CallLookup(c) ==
    /\ calls[c].pc = "lookup"
    /\ LET l1 == cached_get_effective_connection_method(Store, calls[c].name)
           l2 == cached_get_effective_connection_method(l1.st, calls[c].name)
           try_router == l1.res = ROUTER /\ calls[c].has_router
       IN /\ SetStore(l2.st)
          /\ calls' = [calls EXCEPT ![c].should_use_router = (l1.res = ROUTER),
                                    ![c].effective_method = l2.res,
                                    ![c].pc = IF try_router THEN "router" ELSE "rest"]
    /\ CallFrame

\* The call once one of its two lookups has answered res: the first is
\* should_use_router, the second get_effective_connection_method.
after_lookup(call, res) ==
    IF call.pc \in {"lookup", "lookup_write"}
    THEN [call EXCEPT !.should_use_router = (res = ROUTER),
                      !.pending = NoKey, !.pc = "lookup2"]
    ELSE [call EXCEPT !.effective_method = res,
                      !.pending = NoKey,
                      !.pc = IF call.should_use_router /\ call.has_router
                             THEN "router" ELSE "rest"]

\* cached_registry.py 135-149 inside a call: the cached read; on a miss the
\* row is read and the method derived from it, and the cache write is
\* still to come.
CallLookupRead(c) ==
    /\ calls[c].pc \in {"lookup", "lookup2"}
    /\ LET name == calls[c].name
           cached == _get_cached_connection_method(Store, name)
       IN calls' = [calls EXCEPT ![c] =
             IF redis_available /\ cached # NoKey
             THEN after_lookup(@, cached)
             ELSE IF name \notin DOMAIN registry
             THEN after_lookup(@, UnknownServiceMethod)
             ELSE IF ~redis_available
             THEN after_lookup(@, get_effective_connection_method(registry[name]))
             ELSE [@ EXCEPT !.pending = get_effective_connection_method(registry[name]),
                            !.pc = IF calls[c].pc = "lookup" THEN "lookup_write"
                                   ELSE "lookup2_write"]]
    /\ CallStoreUnchanged
    /\ CallFrame

\* cached_registry.py 152-158 inside a call: setex of the method derived
\* from the row read before this await; it is also what the lookup returns.
CallLookupWrite(c) ==
    /\ calls[c].pc \in {"lookup_write", "lookup2_write"}
    /\ SetStore(_cache_connection_method(Store, calls[c].name, calls[c].pending))
    /\ calls' = [calls EXCEPT ![c] = after_lookup(@, calls[c].pending)]
    /\ CallFrame

\* A failed router call that goes on to REST with nothing recorded.
AfterRouterFailure_RestFirst == "rest"

\* Where a call goes when its router call has raised: the except block
\* awaits update_service_health_cached before anything else.
AfterRouterFailure == "record_degraded"

\* proxy.py 97-103: the in-process call returns, or raises.
CallRouter(c, local) ==
    /\ calls[c].pc = "router"
    /\ calls' = [calls EXCEPT
          ![c].events = Append(@, IF _call_via_router_raises(local)
                                  THEN "router_failed" ELSE "router_returned"),
          ![c].pc = IF _call_via_router_raises(local)
                    THEN AfterRouterFailure ELSE "idle"]
    /\ CallStoreUnchanged
    /\ CallFrame

\* proxy.py 105-110 and 122-127: update_service_health_cached after a
\* failed attempt.
CallRecord(c) ==
    /\ calls[c].pc \in {"record_degraded", "record_down"}
    /\ LET status == IF calls[c].pc = "record_degraded"
                     THEN RouterFailureStatus ELSE RestFailureStatus
       IN /\ SetStore(update_service_health_cached(Store, calls[c].name, status))
          /\ calls' = [calls EXCEPT
                ![c].events = Append(@, IF status = RouterFailureStatus
                                        THEN "recorded_degraded"
                                        ELSE "recorded_down"),
                ![c].pc = IF calls[c].pc = "record_degraded"
                          THEN "rest" ELSE "raise"]
    /\ CallFrame

\* A failed REST request that sends the call back to the router.
AfterRestFailure_RetryRouter == "router"

\* Where a call goes when its REST request has raised: the except block
\* awaits update_service_health_cached, and the raise follows.
AfterRestFailure == "record_down"

\* proxy.py 112-120: the REST request, when the row read at the start has
\* a rest_url and the method is not DISABLED; it returns, or raises.
CallRest(c, remote) ==
    /\ calls[c].pc = "rest"
    /\ calls' = [calls EXCEPT ![c] =
          IF calls[c].rest_url = NoUrl \/ calls[c].effective_method = DISABLED
          THEN [@ EXCEPT !.pc = "raise"]
          ELSE IF _call_via_rest(remote).raised
          THEN [@ EXCEPT !.remote = remote, !.pc = AfterRestFailure,
                         !.events = Append(Append(@, "rest_request"), "rest_failed")]
          ELSE [@ EXCEPT !.remote = remote, !.pc = "idle",
                         !.events = Append(Append(@, "rest_request"), "rest_returned")]]
    /\ CallStoreUnchanged
    /\ CallFrame

\* proxy.py 130: raise ServiceUnavailableError(attempted_methods).
CallRaise(c) ==
    /\ calls[c].pc = "raise"
    /\ calls' = [calls EXCEPT ![c].pc = "idle",
                              ![c].events = Append(@, "raise_unavailable")]
    /\ CallStoreUnchanged
    /\ CallFrame

\* Calls of several coroutines interleaved with each other, with rescans
\* and with lookups made elsewhere in the process.
CallNext ==
    \/ SyncDiscoveredServices
    \/ \E name \in Services : GetEffectiveConnectionMethod(name)
    \/ \E c \in Callers, name \in Services : CallStart(c, name)
    \/ \E c \in Callers : CallLookup(c)
    \/ \E c \in Callers, local \in LocalOutcomes : CallRouter(c, local)
    \/ \E c \in Callers : CallRecord(c)
    \/ \E c \in Callers, remote \in RemoteOutcomes : CallRest(c, remote)
    \/ \E c \in Callers : CallRaise(c)

Init == RegInit /\ QueueInit /\ GatherInit /\ MonitorInit /\ CallInit

\* Calls of several coroutines with the lookups of a call split at the
\* await between reading the row and writing the cache; the services are
\* scanned once, at startup.
RaceNext ==
    \/ last.op = "init" /\ SyncDiscoveredServices
    \/ \E c \in Callers, name \in Services : CallStart(c, name)
    \/ \E c \in Callers : CallLookupRead(c)
    \/ \E c \in Callers : CallLookupWrite(c)
    \/ \E c \in Callers, local \in LocalOutcomes : CallRouter(c, local)
    \/ \E c \in Callers : CallRecord(c)
    \/ \E c \in Callers, remote \in RemoteOutcomes : CallRest(c, remote)
    \/ \E c \in Callers : CallRaise(c)

\* Redis reachable at startup, no legacy LOCAL_ROUTER_MODE.
CallOnlyInit == Init /\ redis_available = TRUE /\ local_router_mode = FALSE

CallSpec == CallOnlyInit /\ [][CallNext]_vars

RaceSpec == CallOnlyInit /\ [][RaceNext]_vars

Next == RegNext

Spec == Init /\ [][Next]_vars

\* The admission queue on its own, next to a platform with Redis up and
\* LOCAL_ROUTER_MODE at its default.
QueueOnlyInit == Init /\ redis_available = TRUE /\ local_router_mode = FALSE

QueueSpec == QueueOnlyInit /\ [][QueueNext]_vars

\* The error log near its limit: the stats of a queue that has logged
\* ErrorLogLimit - 2 failed calls, the two oldest on any lanes.
Repeat(n, entry) == [i \in 1..n |-> entry]

InitialLogs ==
    {<<a, b>> \o Repeat(ErrorLogLimit - 4, MEDIUM) :
        a \in PriorityLevel, b \in PriorityLevel}

LoggedOn(log, p) == Cardinality({i \in 1..Len(log) : log[i] = p})

ErrorLogInit ==
    /\ RegInit
    /\ redis_available = TRUE
    /\ local_router_mode = FALSE
    /\ GatherInit
    /\ MonitorInit
    /\ CallInit
    /\ errors \in InitialLogs
    /\ processed_count = [p \in PriorityLevel |-> LoggedOn(errors, p)]
    /\ queues = [p \in PriorityLevel |-> 0]
    /\ active_workers = [p \in PriorityLevel |-> 0]
    /\ queue_lengths = [p \in PriorityLevel |-> 0]
    /\ admission_rejections = [p \in PriorityLevel |-> 0]
    /\ in_flight = [p \in PriorityLevel |-> 0]
    /\ qlast = [op |-> "init", priority |-> "-", res |-> "-",
                before |-> [queue |-> 0, queue_length |-> 0, active |-> 0,
                            rejections |-> 0, processed |-> 0, in_flight |-> 0]]

\* Failing calls fill the log and push entries out of it while the Low lane
\* admits and rejects submits.
ErrorLogNext ==
    \/ \E priority \in PriorityLevel : ExecuteRequestRaises(priority)
    \/ SubmitAdmitted(LOW)
    \/ SubmitRejected(LOW)

ErrorLogSpec == ErrorLogInit /\ [][ErrorLogNext]_vars

\* The two health monitors on an installation with two services.
CycleServices == {"ai_svc", "bot_svc"}

HealthCycleInit ==
    /\ registry = [name \in {} |-> 0]
    /\ method_cache = [name \in CycleServices |-> NoKey]
    /\ health_cache = [name \in CycleServices |-> NoKey]
    /\ method_ttl = [name \in CycleServices |-> 0]
    /\ health_ttl = [name \in CycleServices |-> 0]
    /\ redis_available = TRUE
    /\ local_router_mode = FALSE
    /\ mounted_services = {}
    /\ last = NoOp
    /\ QueueInit
    /\ GatherInit
    /\ MonitorInit
    /\ CallInit

\* ControllerCore.initialize discovers and mounts once at startup; after
\* that the two monitors run their cycles.
HealthCycleNext ==
    \/ last.op = "init" /\ DiscoverAndMountServices
    \/ CheckAllServices
    \/ CheckMountedServicesHealth

HealthCycleSpec == HealthCycleInit /\ [][HealthCycleNext]_vars

\* Startup and remounts on an installation with two services whose
\* connection methods the operator sets between the cycles.
RemountNext ==
    \/ DiscoverAndMountServices
    \/ \E name \in CycleServices, method \in ConnectionMethod :
          UpdateServiceConfig(name, "connection_method", method)

RemountSpec == HealthCycleInit /\ [][RemountNext]_vars

\* The cache with its clock: lookups, the writes that make a cached decision
\* stale or store a health snapshot, and the passing of time.
TtlNext ==
    \/ SyncDiscoveredServices
    \/ \E name \in Services : GetEffectiveConnectionMethod(name)
    \/ \E name \in Services, method \in ConnectionMethod :
          UpdateServiceConfig(name, "connection_method", method)
    \/ \E name \in Services, local \in LocalOutcomes, remote \in RemoteOutcomes :
          ExecuteServiceCall(name, local, remote)
    \/ Tick

TtlSpec == Init /\ [][TtlNext]_vars

\* Lookups while Redis may fail under the registry, next to the writes that
\* change what a lookup must answer.
OutageNext ==
    \/ SyncDiscoveredServices
    \/ \E name \in Services, read \in RedisOutcomes, write \in RedisOutcomes :
          LookupWithRedisOutcome(name, read, write)
    \/ \E name \in Services, method \in ConnectionMethod :
          UpdateServiceConfig(name, "connection_method", method)
    \/ \E name \in Services, local \in LocalOutcomes, remote \in RemoteOutcomes :
          ExecuteServiceCall(name, local, remote)

OutageSpec == Init /\ [][OutageNext]_vars

\* The rows under discovery syncs and manual configuration.
RecordNext ==
    \/ SyncScannedMetadata
    \/ \E name \in Services, method \in ConnectionMethod :
          UpdateServiceConfig(name, "connection_method", method)
    \/ \E name \in Services, value \in BOOLEAN :
          UpdateServiceConfig(name, "is_active", value)
    \/ \E name \in Services, url \in RestUrls :
          UpdateServiceConfig(name, "rest_url", url)
    \/ \E name \in Services : UpdateServiceConfig(name, "priority", CustomPriority)
    \/ \E name \in Services : UpdateServiceConfig(name, "display_name", CustomText)
    \/ \E name \in Services : UpdateServiceConfig(name, "description", CustomText)
    \/ \E name \in Services : GetEffectiveConnectionMethod(name)

RecordSpec == Init /\ [][RecordNext]_vars

\* A name no service directory and no row exists for.
UnknownNames == {"ghost_svc"}

\* The writers of the registry called with known and unknown names and
\* with a field outside the allow-list, next to rescans and lookups.
WriterNext ==
    \/ SyncScannedMetadata
    \/ \E name \in Services : GetEffectiveConnectionMethod(name)
    \/ \E name \in Services \cup UnknownNames, status \in HealthStatuses :
          UpdateHealthStatus(name, status)
    \/ \E name \in Services \cup UnknownNames, method \in ConnectionMethod :
          UpdateServiceConfig(name, "connection_method", method)
    \/ \E name \in Services \cup UnknownNames, value \in BOOLEAN :
          UpdateServiceConfig(name, "has_router", value)
    \/ \E name \in Services \cup UnknownNames, method \in ConnectionMethod :
          UpdateServiceConnectionMethod(name, method)

WriterSpec == Init /\ [][WriterNext]_vars

\* Every row the routing policy can be asked about: each combination of
\* the five fields get_effective_connection_method reads.
PolicyRows ==
    [connection_method : ConnectionMethod,
     rest_url          : RestUrls,
     is_active         : BOOLEAN,
     health_status     : HealthStatuses,
     auto_discovered   : {FALSE},
     has_router        : BOOLEAN,
     display_name      : {ScannedText},
     description       : {ScannedText},
     priority          : {DefaultPriority}]

PolicyInit ==
    /\ registry \in [Services -> PolicyRows]
    /\ method_cache = [name \in Services |-> NoKey]
    /\ health_cache = [name \in Services |-> NoKey]
    /\ method_ttl = [name \in Services |-> 0]
    /\ health_ttl = [name \in Services |-> 0]
    /\ redis_available = TRUE
    /\ local_router_mode = FALSE
    /\ mounted_services = {}
    /\ last = NoOp
    /\ QueueInit
    /\ GatherInit
    /\ MonitorInit
    /\ CallInit

PolicyNext ==
    \E name \in Services : RowEffectiveMethod(name)

PolicySpec == PolicyInit /\ [][PolicyNext]_vars

\* The REST health probe on every row, with every outcome of the request.
ProbeNext ==
    \E name \in Services, probe \in ProbeOutcomes \ {"raise"} :
        CheckRestHealth(name, probe)

ProbeSpec == PolicyInit /\ [][ProbeNext]_vars

\* The two monitor loops of one installation, from startup on.
MonitorSpec == Init /\ [][MonitorNext]_vars

\* gather / parallel on its own.
GatherSpec == QueueOnlyInit /\ [][GatherNext]_vars

\* ------------------------------------------------------------------------
\* Properties
\* ------------------------------------------------------------------------

\* What a lookup made in the current state returns.
LookupNow(name) ==
    cached_get_effective_connection_method(Store, name).res

\* C1: in every reachable state a service whose row has connection_method =
\* DISABLED gets DISABLED from the cached effective-mode lookup, whatever its
\* health and whatever the cache holds.
C1_DisabledStaysDisabled ==
    \A name \in DOMAIN registry :
        registry[name].connection_method = DISABLED => LookupNow(name) = DISABLED

\* C2: in every reachable state a service whose row has has_router = FALSE
\* never gets ROUTER from the effective-mode lookup, also right after a
\* discovery sync turned has_router off while a decision was cached.
C2_NoRouterWithoutLocalTarget ==
    \A name \in DOMAIN registry :
        ~registry[name].has_router => LookupNow(name) # ROUTER

\* C3: once an operation (router failure handling, the controller's health
\* loop, a HealthChecker cycle) has set a service's health to down, a lookup
\* made before the cache TTL expires does not return ROUTER.
C3_DownNeverStaleLocal ==
    \A name \in last.down : LookupNow(name) # ROUTER

\* C4: every step that changes connection_method or is_active of a row
\* removes the decision that was cached for that service.
C4_ConfigWriteInvalidates ==
    [][\A name \in DOMAIN registry :
          (/\ \/ registry'[name].connection_method # registry[name].connection_method
              \/ registry'[name].is_active # registry[name].is_active
           /\ method_cache[name] # NoKey)
          => method_cache'[name] = NoKey]_vars

\* C5: when the router call of a call() raises and the REST call answers
\* 200, call() returns the REST result and the service's health right after
\* the call is degraded (in the row and in the health key), not down.
C5_RouterFallback ==
    (/\ last.op = "call"
     /\ last.local \in {"raise", "noimport", "missing"}
     /\ last.remote = 200)
    => /\ last.res = RemoteResult
       /\ last.attempted = <<"router">>
       /\ registry[last.name].health_status = "degraded"
       /\ redis_available => health_cache[last.name] = "degraded"

C5_Witness ==
    /\ last.op = "call"
    /\ last.local = "raise"
    /\ last.remote = 200
    /\ last.res = RemoteResult
    /\ registry[last.name].health_status = "degraded"

\* C6: when the router call raises and the REST call fails (any response
\* other than 200, or a transport error), call() raises
\* ServiceUnavailableError with attempted methods exactly router, rest in
\* that order, and returns no value.
C6_TotalFailure ==
    (/\ last.op = "call"
     /\ last.local \in {"raise", "noimport"}
     /\ last.remote \notin {200, NotAttempted})
    => /\ last.res = ServiceUnavailableError
       /\ last.attempted = <<"router", "rest">>

C8_Only200Succeeds ==
    (last.op = "call" /\ last.remote # NotAttempted)
    => /\ (last.res = RemoteResult) <=> (last.remote = 200)
       /\ last.res # NoneResult

\* C9: a submit on a lane whose queue is at its cap is rejected with
\* QueueFull at once: the operation is not started (no processed call, no
\* call in flight added), the lane's rejection count grows by one and its
\* depth and active count are unchanged.
C9_QueueFullRejects ==
    (/\ qlast.op = "submit"
     /\ \/ qlast.before.queue = queue_limits[qlast.priority]
        \/ qlast.before.queue_length = queue_limits[qlast.priority])
    => /\ qlast.res = "QueueFull"
       /\ admission_rejections[qlast.priority] = qlast.before.rejections + 1
       /\ queues[qlast.priority] = qlast.before.queue
       /\ queue_lengths[qlast.priority] = qlast.before.queue_length
       /\ active_workers[qlast.priority] = qlast.before.active
       /\ processed_count[qlast.priority] = qlast.before.processed
       /\ InFlight(qlast.priority) = qlast.before.in_flight

C9_Witness ==
    /\ qlast.op = "submit"
    /\ qlast.res = "QueueFull"
    /\ qlast.before.queue = queue_limits[qlast.priority]
    /\ qlast.before.in_flight = queue_limits[qlast.priority]
    /\ admission_rejections[qlast.priority] = 1

\* C10: a submit is rejected with QueueFull only when the lane's calls
\* admitted and not yet finished are at the queue-depth cap; the slots of
\* calls that have ended are free again.
C10_RejectedOnlyWhenInFlightAtCap ==
    (qlast.op = "submit" /\ qlast.res = "QueueFull")
    => qlast.before.in_flight = queue_limits[qlast.priority]

\* C11: in every reachable state the number of calls executing on a lane
\* (active_workers) is at most the lane's concurrency cap.
C11_ActiveWithinConcurrencyCap ==
    \A p \in PriorityLevel : active_workers[p] <= concurrency_limits[p]

\* C12: in every reachable state and for each lane, the calls admitted and
\* not yet executing (the stats' queue length minus the active workers) are at
\* most the lane's queue-depth cap, and every submit is accounted for exactly
\* once: a rejected submit gets QueueFull and starts nothing, an admitted call
\* executes from its admission on (it is counted as processed, as active and
\* in the queue length until it ends), and it leaves these counts exactly
\* once, when its operation ends with a result, an error or a timeout (or its
\* caller is cancelled).
C12_AdmittedCallsAccounted ==
    /\ \A p \in PriorityLevel :
          /\ queue_lengths[p] - active_workers[p] <= queue_limits[p]
          /\ queue_lengths[p] <= queue_limits[p]
          /\ queue_lengths[p] = InFlight(p)
          /\ active_workers[p] = InFlight(p)
          /\ processed_count[p] = queues[p]
    /\ qlast.op = "submit"
         => /\ qlast.res \in {"admitted", "QueueFull"}
            /\ qlast.res = "QueueFull"
                 => InFlight(qlast.priority) = qlast.before.in_flight
            /\ qlast.res = "admitted"
                 => InFlight(qlast.priority) = qlast.before.in_flight + 1
    /\ qlast.op = "finish"
         => /\ qlast.res \in Outcomes
            /\ InFlight(qlast.priority) = qlast.before.in_flight - 1
            /\ queue_lengths[qlast.priority] = qlast.before.queue_length - 1

C12_Witness ==
    /\ qlast.op = "finish"
    /\ qlast.priority = LOW
    /\ qlast.res = "timeout"
    /\ qlast.before.queue_length = queue_limits[LOW]
    /\ admission_rejections[LOW] = 1
    /\ InFlight(LOW) = queue_limits[LOW] - 1

\* C13: a step in which an admitted call ends by running past its timeout
\* releases that call's concurrency slot (active_workers) and its queue slot
\* (the stats' queue length and the place it holds in the lane's queue) and
\* leaves the numbers of the other two lanes as they were; the call ends
\* with "timeout", which is not the QueueFull of a rejection.
C13_TimeoutReleasesSlots ==
    [][(qlast'.op = "finish" /\ qlast'.res = "timeout")
       => /\ qlast'.res # "QueueFull"
          /\ active_workers'[qlast'.priority] = active_workers[qlast'.priority] - 1
          /\ queue_lengths'[qlast'.priority] = queue_lengths[qlast'.priority] - 1
          /\ queues'[qlast'.priority] = queues[qlast'.priority] - 1
          /\ \A q \in PriorityLevel \ {qlast'.priority} :
                /\ queues'[q] = queues[q]
                /\ queue_lengths'[q] = queue_lengths[q]
                /\ active_workers'[q] = active_workers[q]
                /\ admission_rejections'[q] = admission_rejections[q]
                /\ processed_count'[q] = processed_count[q]
                /\ in_flight'[q] = in_flight[q]]_vars

\* C14: lanes are independent. A step of the queue (a submit that is admitted
\* or rejected, a call that ends with a result, an error or a timeout) changes
\* the numbers of its own lane only: depth, active count, counters and the
\* admission decision of the other two lanes stay as they were; and whether a
\* submit is admitted depends on its own lane's queue alone, so a submit on a
\* lane below its cap is admitted and executes whatever the other lanes hold.
C14_LanesIndependent ==
    [][/\ \A q \in PriorityLevel \ {qlast'.priority} :
             /\ queues'[q] = queues[q]
             /\ queue_lengths'[q] = queue_lengths[q]
             /\ active_workers'[q] = active_workers[q]
             /\ admission_rejections'[q] = admission_rejections[q]
             /\ processed_count'[q] = processed_count[q]
             /\ in_flight'[q] = in_flight[q]
             /\ QueueIsFull(queues'[q], queue_limits[q])
                  = QueueIsFull(queues[q], queue_limits[q])
       /\ qlast'.op = "submit"
            => /\ (qlast'.res = "admitted")
                    <=> (queues[qlast'.priority] < queue_limits[qlast'.priority])
               /\ qlast'.res = "admitted"
                    => /\ active_workers'[qlast'.priority]
                            = active_workers[qlast'.priority] + 1
                       /\ in_flight'[qlast'.priority]
                            = in_flight[qlast'.priority] + 1]_vars

C14_Witness ==
    /\ qlast.op = "submit"
    /\ qlast.priority = LOW
    /\ qlast.res = "admitted"
    /\ queues[HIGH] = queue_limits[HIGH]
    /\ InFlight(HIGH) = queue_limits[HIGH]
    /\ active_workers[HIGH] >= concurrency_limits[HIGH]
    /\ admission_rejections[HIGH] >= 1

\* C15: a batch run under the partial policy never raises, and the list it
\* returns has the length of the input with, at position i, the outcome of
\* input i (its value or its wrapped error), whatever the completion order.
C15_PartialKeepsInputOrder ==
    (batch.policy = PARTIAL_OK /\ batch.result \notin {"none", "pending"})
    => /\ batch.result = "returned"
       /\ Len(batch.value) = Len(batch.outcome)
       /\ \A i \in 1..Len(batch.outcome) :
             batch.value[i] = result_entry(batch.outcome, i)

\* C16: in a batch run under all_or_nothing (through ServiceProxy.gather or
\* CallScheduler.parallel), as soon as one operation has failed the caller
\* gets the error of the first operation that failed, and a list that is
\* returned never holds a failure.
C16_AllOrNothingRaises ==
    (batch.policy = ALL_OR_NOTHING /\ batch.impl \in {ProxyGather, SchedulerParallel})
    => /\ HasFailed(batch.outcome, batch.order)
            => /\ batch.result = "raised"
               /\ \E k \in DOMAIN batch.order :
                     /\ batch.order[k] = batch.error
                     /\ batch.outcome[batch.error] = "fail"
                     /\ \A j \in 1..(k - 1) : batch.outcome[batch.order[j]] = "ok"
       /\ batch.result = "returned"
            => \A k \in DOMAIN batch.value : batch.value[k].ok

\* C17: in a batch run under all_or_nothing, once an operation has failed no
\* operation of the batch is still running (the siblings in flight were
\* cancelled) and no operation was started at or after the failure.
C17_FailureCancelsSiblings ==
    (batch.policy = ALL_OR_NOTHING /\ HasFailed(batch.outcome, batch.order))
    => /\ Running(batch.state) = {}
       /\ batch.late_starts = {}

\* C18: while a batch runs, the number of its operations running at the same
\* time is at most the smaller of the concurrency argument and the
\* concurrency cap of the lane the batch was given.
C18_GatherWithinLaneCap ==
    batch.result # "none"
    => /\ Cardinality(Running(batch.state)) <= batch.concurrency
       /\ Cardinality(Running(batch.state)) <= concurrency_limits[batch.priority]

\* C19: down is not absorbing under the monitor. In every reachable state,
\* for an active service that is not disabled by configuration, has an
\* endpoint to probe and whose health is down, a HealthChecker cycle in which
\* every endpoint answers healthy writes a status other than down.
C19_DownNotAbsorbing ==
    \A name \in DOMAIN registry :
        (/\ registry[name].is_active
         /\ registry[name].connection_method # DISABLED
         /\ registry[name].rest_url # NoUrl
         /\ registry[name].health_status = "down")
        => check_all_services(registry,
              [n \in Services |-> "200_healthy"])[name].health_status # "down"

\* C20: in every health cycle (a HealthChecker cycle over the active
\* services, a controller cycle over the mounted services), a service whose
\* probe raised has down written as its health, and every other service of
\* the cycle has the result of its own probe written, whatever happened to
\* the probes of the others.
C20_ProbeFailureIsolated ==
    [][/\ last'.op = "check_all_services"
            => \A name \in DOMAIN last'.inputs :
                  registry'[name].health_status =
                     IF last'.inputs[name] = "raise" THEN "down"
                     ELSE check_service_health(registry[name], last'.inputs[name])
       /\ last'.op = "check_mounted_services_health"
            => \A name \in DOMAIN last'.inputs :
                  registry'[name].health_status =
                     IF last'.inputs[name] = "raise" THEN "down"
                     ELSE last'.inputs[name]]_vars

\* C21: a monitor loop's task ends only by stop_monitoring or by a
\* cancellation of the task, never because a cycle raised: a cycle that
\* raised leaves the loop in its backoff sleep, and the only way out of the
\* backoff sleep (short of stop or cancellation) is into another cycle.
C21_LoopSurvivesCycleException ==
    [][\A m \in Monitors :
          /\ (monitor.pos[m] # "ended" /\ monitor'.pos[m] = "ended")
               => monitor'.event.what \in {"stop_monitoring", "cancelled"}
          /\ (monitor'.event = [who |-> m, what |-> "cycle_raised"]
                /\ monitor.pos[m] = "cycle")
               => monitor'.pos[m] = "backoff"
          /\ (monitor.pos[m] = "backoff"
                /\ monitor'.pos[m] \notin {"backoff", "ended"})
               => monitor'.pos[m] = "cycle"]_vars

C21_Witness ==
    /\ monitor.event = [who |-> ControllerLoop, what |-> "backoff_ended"]
    /\ monitor.pos[ControllerLoop] = "cycle"
    /\ monitor.pos[HealthCheckerLoop] = "backoff"
    /\ mounted_services # {}

\* C22: a cached decision is never served past its TTL. A key that exists
\* has between 1 and CACHE_TTL (method) or HEALTH_CACHE_TTL (health snapshot)
\* seconds left, so it is gone once its TTL has elapsed; and a lookup that
\* finds no method key (the first lookup after expiry) returns the effective
\* mode of the current row and stores it with a fresh CACHE_TTL.
C22_NeverServedPastTtl ==
    [][\A name \in ServicesOnDisk :
          /\ method_cache'[name] # NoKey => method_ttl'[name] \in 1..CACHE_TTL
          /\ health_cache'[name] # NoKey => health_ttl'[name] \in 1..HEALTH_CACHE_TTL
          /\ (/\ last'.op = "get_effective_connection_method"
              /\ last'.name = name
              /\ name \in DOMAIN registry
              /\ redis_available
              /\ method_cache[name] = NoKey)
             => /\ last'.res = get_effective_connection_method(registry[name])
                /\ method_cache'[name] = last'.res
                /\ method_ttl'[name] = CACHE_TTL]_vars

C22_Witness ==
    /\ last.op = "get_effective_connection_method"
    /\ last.inputs.expired
    /\ last.inputs.cached = NoKey
    /\ last.res = REST
    /\ method_cache[last.name] = REST
    /\ method_ttl[last.name] = CACHE_TTL
    /\ registry[last.name].connection_method = REST
    /\ registry[last.name].has_router

\* C23: when the cache store is unavailable, or the cache read of a lookup
\* raises, the lookup returns the mode derived from the current row (the
\* default for a name without a row), issues no cache write and raises
\* nothing.
C23_CacheDownIsRegistryAlone ==
    [][(/\ last'.op = "lookup_with_redis_outcome"
        /\ (~redis_available \/ last'.inputs.read = "raise"))
       => /\ ~last'.inputs.raised
          /\ last'.res = IF last'.name \in DOMAIN registry
                         THEN get_effective_connection_method(registry[last'.name])
                         ELSE UnknownServiceMethod
          /\ \A i \in DOMAIN last'.writes : last'.writes[i] # "setex"
          /\ method_cache' = method_cache]_vars

\* C24: a lookup for a name without a row raises nothing, returns REST and
\* leaves the cache as it was, issuing no cache write.
C24_UnknownNameDefaultsToRest ==
    [][(/\ last'.op = "lookup_with_redis_outcome"
        /\ last'.name \notin DOMAIN registry)
       => /\ ~last'.inputs.raised
          /\ last'.res = REST
          /\ \A i \in DOMAIN last'.writes : last'.writes[i] # "setex"
          /\ method_cache' = method_cache
          /\ method_ttl' = method_ttl
          /\ registry' = registry]_vars

C24_Witness ==
    /\ last.op = "lookup_with_redis_outcome"
    /\ ~last.inputs.had_row
    /\ redis_available
    /\ last.inputs.read = "ok"
    /\ last.res = REST
    /\ method_cache[last.name] = NoKey

\* C25: a call on a service without a row, or with an inactive row, ends at
\* once with ServiceUnavailableError: neither the router nor REST is tried,
\* and the row, the cached method and the cached health stay as they were.
C25_UnregisteredOrInactiveFailsFast ==
    [][(/\ last'.op = "call"
        /\ (\/ last'.name \notin DOMAIN registry
            \/ ~registry[last'.name].is_active))
       => /\ last'.res = ServiceUnavailableError
          /\ last'.attempted = <<"registry_lookup">>
          /\ last'.local = Skipped
          /\ last'.remote = NotAttempted
          /\ last'.writes = <<>>
          /\ registry' = registry
          /\ method_cache' = method_cache
          /\ health_cache' = health_cache
          /\ method_ttl' = method_ttl
          /\ health_ttl' = health_ttl]_vars

C25_Witness ==
    /\ last.op = "call"
    /\ last.name \in DOMAIN registry
    /\ ~registry[last.name].is_active
    /\ registry[last.name].rest_url # NoUrl
    /\ last.res = ServiceUnavailableError
    /\ last.attempted = <<"registry_lookup">>
    /\ redis_available
    /\ method_cache[last.name] = NoKey

\* C26: a discovery sync is idempotent. Running it again with the same
\* scan on the table it has just produced changes no field of any row, and
\* the sync touches no cache key.
C26_SyncIdempotent ==
    [][last'.op = "sync_scanned_metadata"
       => /\ _sync_with_database(registry', last'.inputs.discovered,
                                 last'.inputs.info) = registry'
          /\ marked_inactive(registry', last'.inputs.discovered) = {}
          /\ reactivated(registry', last'.inputs.discovered) = {}
          /\ method_cache' = method_cache
          /\ health_cache' = health_cache]_vars

C26_Witness ==
    /\ last.op = "sync_scanned_metadata"
    /\ last.inputs.reactivated # {}
    /\ \E name \in last.inputs.discovered :
          /\ name \in DOMAIN registry
          /\ registry[name].description = EditedText
          /\ registry[name].is_active

\* C27: a row that update_service_config has marked as manually configured
\* keeps its connection_method, rest_url, is_active, priority, display_name
\* and description through every later discovery sync.
C27_ManualFieldsSurviveSync ==
    [][last'.op = "sync_scanned_metadata"
       => \A name \in DOMAIN registry :
             ~registry[name].auto_discovered
             => /\ registry'[name].connection_method = registry[name].connection_method
                /\ registry'[name].rest_url = registry[name].rest_url
                /\ registry'[name].is_active = registry[name].is_active
                /\ registry'[name].priority = registry[name].priority
                /\ registry'[name].display_name = registry[name].display_name
                /\ registry'[name].description = registry[name].description]_vars

\* C28 as stated: no step removes a row; after a sync every row the scan did
\* not find is inactive and every row it found is active.
C28_MissingInactiveFoundActive ==
    [][/\ DOMAIN registry \subseteq DOMAIN registry'
       /\ last'.op = "sync_scanned_metadata"
          => \A name \in DOMAIN registry :
                registry'[name].is_active = (name \in last'.inputs.discovered)]_vars

\* C28, amended: no step removes a row; after a sync an auto-discovered row
\* is active exactly when the scan found it, and a manually configured row
\* keeps the is_active it had.
C28_SoftDisableAutoDiscovered ==
    [][/\ DOMAIN registry \subseteq DOMAIN registry'
       /\ last'.op = "sync_scanned_metadata"
          => \A name \in DOMAIN registry :
                /\ registry[name].auto_discovered
                   => registry'[name].is_active = (name \in last'.inputs.discovered)
                /\ ~registry[name].auto_discovered
                   => registry'[name].is_active = registry[name].is_active]_vars

C28_Witness ==
    /\ last.op = "sync_scanned_metadata"
    /\ last.inputs.marked_inactive # {}
    /\ \A name \in last.inputs.marked_inactive :
          /\ name \in DOMAIN registry
          /\ ~registry[name].is_active
          /\ registry[name].auto_discovered

C30_FailureRecordedBeforeNextMode ==
    [][\A c \in Callers :
          LET name == calls[c].name
              events == calls'[c].events
              Between(first, mid, then) ==
                  \A i, j \in DOMAIN events :
                      (i < j /\ events[i] = first /\ events[j] = then)
                      => \E k \in DOMAIN events : i < k /\ k < j /\ events[k] = mid
          IN /\ (calls[c].pc = "router" /\ calls'[c].pc \notin {"router", "idle"})
                => calls'[c].pc = "record_degraded"
             /\ (calls[c].pc = "record_degraded" /\ calls'[c].pc # "record_degraded")
                => /\ calls'[c].pc = "rest"
                   /\ registry'[name].health_status = "degraded"
                   /\ method_cache'[name] = NoKey
             /\ (/\ calls[c].pc = "rest"
                 /\ calls'[c].remote # NotAttempted
                 /\ (\/ calls'[c].remote = TransportError
                     \/ calls'[c].remote \notin 200..299))
                => calls'[c].pc = "record_down"
             /\ (calls[c].pc = "record_down" /\ calls'[c].pc # "record_down")
                => /\ calls'[c].pc = "raise"
                   /\ registry'[name].health_status = "down"
                   /\ method_cache'[name] = NoKey
             /\ Between("router_failed", "recorded_degraded", "rest_request")
             /\ Between("router_failed", "recorded_degraded", "raise_unavailable")
             /\ Between("rest_failed", "recorded_down", "raise_unavailable")]_vars

C30_Witness ==
    \E c \in Callers :
        /\ calls[c].pc = "idle"
        /\ calls[c].events = <<"router_failed", "recorded_degraded", "rest_request",
                               "rest_failed", "recorded_down", "raise_unavailable">>
        /\ registry[calls[c].name].health_status = "down"
        /\ method_cache[calls[c].name] = NoKey

\* C31: once a caller's router-failure write has completed (the row says
\* degraded or down and nothing has restored it), no method key saying
\* ROUTER exists, and no call that started after the write gets to the
\* in-process attempt.
C31_NoLocalAfterFailureWrite ==
    \A name \in DOMAIN registry :
        registry[name].health_status \in {"degraded", "down"}
        => /\ method_cache[name] # ROUTER
           /\ \A c \in Callers :
                 (/\ calls[c].name = name
                  /\ calls[c].health_at_start \in {"degraded", "down"})
                 => /\ calls[c].pc # "router"
                    /\ ~calls[c].should_use_router

\* C32: within one call the modes are tried in the order router, then REST.
\* The router is attempted at most once and only as the first thing the
\* call does, REST is requested at most once, and nothing is attempted
\* after a REST request.
C32_RouterThenRestOnly ==
    \A c \in Callers :
        LET events == calls[c].events
            IsRouter(e) == e \in {"router_failed", "router_returned"}
            IsAttempt(e) == IsRouter(e) \/ e = "rest_request"
        IN /\ \A i \in DOMAIN events : IsRouter(events[i]) => i = 1
           /\ \A i, j \in DOMAIN events :
                 (i < j /\ events[i] = "rest_request") => ~IsAttempt(events[j])
           /\ calls[c].pc = "router" => events = <<>>
           /\ calls[c].pc = "rest"
                 => \A i \in DOMAIN events : events[i] # "rest_request"

C32_Witness ==
    \E c \in Callers :
        /\ calls[c].pc = "idle"
        /\ calls[c].events = <<"router_failed", "recorded_degraded",
                               "rest_request", "rest_returned">>
        /\ calls[c].remote = 200

\* C33: update_health_status on a registered name returns true and changes
\* the row's health_status and nothing else: connection_method, is_active,
\* rest_url and auto_discovered (and every other row and every cache key)
\* stay as they were. A row that is still auto-discovered therefore keeps
\* following the scan: after a sync that finds it, its display_name,
\* description, has_router and rest_url are those of the scan.
C33_HealthWriteOnlyHealth ==
    [][/\ (last'.op = "update_health_status" /\ last'.name \in DOMAIN registry)
          => /\ last'.res = "true"
             /\ registry' = [registry EXCEPT
                               ![last'.name].health_status = last'.inputs[1]]
             /\ method_cache' = method_cache
             /\ health_cache' = health_cache
       /\ last'.op = "sync_scanned_metadata"
          => \A name \in (DOMAIN registry) \cap last'.inputs.discovered :
                registry[name].auto_discovered
                => /\ registry'[name].display_name = last'.inputs.info[name].display_name
                   /\ registry'[name].description = last'.inputs.info[name].description
                   /\ registry'[name].has_router = last'.inputs.info[name].has_router
                   /\ registry'[name].rest_url = DefaultUrl
                   /\ registry'[name].is_active]_vars

C33_Witness ==
    /\ last.op = "update_health_status"
    /\ last.name \in DOMAIN registry
    /\ last.res = "true"
    /\ last.inputs = <<"down">>
    /\ registry[last.name].health_status = "down"
    /\ registry[last.name].auto_discovered
    /\ registry[last.name].connection_method = ROUTER
    /\ method_cache[last.name] = ROUTER

\* C34: update_service_config, update_health_status and
\* update_service_connection_method on a name without a row return false and
\* leave every row and every cache key as it was; update_service_config with
\* a field outside the allow-list returns false and leaves the row, its
\* auto_discovered flag included, as it was.
C34_UnknownNameReturnsFalse ==
    [][/\ (/\ last'.op \in {"update_service_config", "update_health_status",
                            "update_service_connection_method"}
           /\ last'.name \notin DOMAIN registry)
          => /\ last'.res = "false"
             /\ registry' = registry
             /\ method_cache' = method_cache
             /\ health_cache' = health_cache
             /\ method_ttl' = method_ttl
             /\ health_ttl' = health_ttl
       /\ (/\ last'.op = "update_service_config"
           /\ last'.inputs[1] \notin {"connection_method", "rest_url", "is_active",
                                      "priority", "display_name", "description"})
          => /\ last'.res = "false"
             /\ registry' = registry]_vars

C34_Witness ==
    /\ last.op = "update_service_connection_method"
    /\ last.name \in UnknownNames
    /\ last.res = "false"
    /\ \E name \in DOMAIN registry : method_cache[name] # NoKey

\* C35: the REST health probe of a service with a rest_url reports healthy
\* for a 200 whose body says status healthy, degraded for every other
\* answer (a 200 with another or unparsable body, a status other than 200),
\* and down for a timeout or a connection failure.
C35_ProbeClassification ==
    (last.op = "_check_rest_health" /\ registry[last.name].rest_url # NoUrl)
    => LET probe == last.inputs[1]
       IN /\ probe = "200_healthy" => last.res = "healthy"
          /\ probe \in {"200_other", "200_not_json", "non_200"}
                => last.res = "degraded"
          /\ probe \in {"timeout", "connect_error"} => last.res = "down"
          /\ last.res \in {"healthy", "degraded", "down"}

C35_Witness ==
    /\ last.op = "_check_rest_health"
    /\ registry[last.name].rest_url = CustomUrl
    /\ last.inputs = <<"non_200">>
    /\ last.res = "degraded"

\* The checks one cycle of check_all_services has running at once: the
\* task list handed to asyncio.gather holds one check per active service.
gathered_checks == DOMAIN last.inputs

\* C36: the probes of a monitor cycle are admitted by the Low lane of the
\* queue: a cycle that has run has been counted by the Low lane, and the
\* checks it had running at once were at most the Low lane's concurrency
\* limit.
C36_ProbesThroughLowLane ==
    last.op = "check_all_services"
    => /\ Cardinality(gathered_checks) <= concurrency_limits[LOW]
       /\ processed_count[LOW] > 0

\* The last n entries of a log, oldest first.
LastEntries(log, n) ==
    IF Len(log) > n THEN SubSeq(log, Len(log) - n + 1, Len(log)) ELSE log

\* C37: the error log never holds more than 100 entries; a failed call
\* leaves in it the most recent entries in order of occurrence, the oldest
\* dropped first; and what the log holds has no part in admission or
\* execution: a submit is admitted exactly when its lane's queue is not
\* full, and it leaves the log as it was.
C37_ErrorLogRolling ==
    [][ /\ Len(errors) <= ErrorLogLimit
        /\ Len(errors') <= ErrorLogLimit
        /\ qlast'.op = "_execute_request"
              => errors' = LastEntries(Append(errors, qlast'.priority),
                                       ErrorLogLimit)
        /\ qlast'.op = "submit"
              => /\ errors' = errors
                 /\ qlast'.res = "admitted"
                       <=> ~QueueIsFull(queues[qlast'.priority],
                                        queue_limits[qlast'.priority])
      ]_vars

C37_Witness ==
    /\ qlast.op = "_execute_request"
    /\ Len(errors) = ErrorLogLimit
    /\ total_processed = ErrorLogLimit + 2
    /\ errors[1] = MEDIUM
    /\ errors[ErrorLogLimit] = qlast.priority
    /\ queues[LOW] > 0

\* C38: in every reachable state the health_status stored for a service,
\* in its row and in its cached snapshot, is one of healthy, degraded, down,
\* unknown, whichever writer produced it.
C38_HealthStatusInRange ==
    /\ \A name \in DOMAIN registry :
          registry[name].health_status \in HealthStatuses
    /\ \A name \in DOMAIN health_cache :
          health_cache[name] \in HealthStatuses \cup {NoKey}

\* C39: a discover-and-mount cycle leaves the connection method of every
\* registered service as it was; an active service set to Disabled is still
\* Disabled after the cycle.
C39_CycleKeepsConnectionMethod ==
    [][ last'.op = "discover_and_mount_services"
        => \A name \in DOMAIN registry :
              registry'[name].connection_method = registry[name].connection_method
      ]_vars

\* C40: for each lane, between the steps of the submits, the depth that
\* get_stats reports (stats.queue_lengths) equals the occupancy of the
\* lane's asyncio.Queue on which admission is decided, and both are 0 when
\* no call of the lane is in flight.
C40_ReportedDepthIsQueueOccupancy ==
    \A p \in PriorityLevel :
        /\ queue_lengths[p] = queues[p]
        /\ InFlight(p) = 0 => (queue_lengths[p] = 0 /\ queues[p] = 0)

====
